---- MODULE Spec2Model ----
(***************************************************************************)
(* A model of the traffic simulation engine of Somfic/red: the road        *)
(* network, the yield resolver, gap acceptance, the IDM controller, the    *)
(* occupancy index and the vehicle lifecycle.                               *)
(*                                                                          *)
(* Numbers.  The program computes in f32.  The model computes in fixed     *)
(* point over the integers, every quotient rounded to the nearest value:    *)
(*   positions, distances, lengths   centimetres                            *)
(*   speeds                          centimetres per second                 *)
(*   accelerations                   centimetres per second squared         *)
(*   times                           milliseconds                           *)
(*   progress                        1/PScale of a segment                  *)
(*   unit directions                 1/DirScale                             *)
(*   cross products of directions    1/(DirScale*DirScale)                  *)
(*   TurnType payloads               1/TurnScale                            *)
(***************************************************************************)
EXTENDS Integers, Sequences, FiniteSets, TLC

VARIABLES
    call,             \* the pure-function call under examination: inputs, results
    scenario,         \* the name of the road network of the run
    network,          \* the Road resource
    delta,            \* Time::delta_secs of the run, in ms
    stage,            \* the system of the pipeline that runs next
    vehicles,         \* the Vehicle components, in the order of the query
    spawned,          \* the number of entities spawned so far
    arrival_counter,  \* Intersection::arrival_counter of every intersection
    occupancy,        \* SegmentOccupancy::vehicles
    idm_in            \* the gap and delta_speed apply_idm used for each vehicle

vars == <<call, scenario, network, delta, stage, vehicles, spawned,
          arrival_counter, occupancy, idm_in>>
simVars == <<scenario, network, delta, stage, vehicles, spawned,
             arrival_counter, occupancy, idm_in>>

----------------------------------------------------------------------------
(* Scales of the fixed-point representation.                               *)

PScale == 10000
DirScale == 1000
TurnScale == 1000
AngScale == 10000
TrigScale == 10000

Abs(x) == IF x < 0 THEN -x ELSE x
Max(a, b) == IF a >= b THEN a ELSE b
Min(a, b) == IF a <= b THEN a ELSE b

\* f32 division, rounded to the nearest representable value of the scale
RDivPos(n, d) == (2 * n + d) \div (2 * d)
RDiv(a, b) ==
    IF (a < 0) = (b < 0) THEN RDivPos(Abs(a), Abs(b)) ELSE -RDivPos(Abs(a), Abs(b))

RECURSIVE SqrtIter(_, _)
SqrtIter(n, g) ==
    IF (g + n \div g) \div 2 >= g THEN g ELSE SqrtIter(n, (g + n \div g) \div 2)

\* a power of two that is not below the square root of n
SqrtStart(n) == IF n > 4^15 THEN 2^16 ELSE 2^(CHOOSE k \in 0..15 : 4^k >= n)

\* f32::sqrt, rounded to the nearest integer
SqrtRound(n, s) == IF n - s * s > s THEN s + 1 ELSE s
ISqrt(n) == IF n <= 0 THEN 0 ELSE SqrtRound(n, SqrtIter(n, SqrtStart(n)))

\* glam::Vec3 restricted to the plane of the roads (z = 0 everywhere).
Vec(x, y) == [x |-> x, y |-> y]

\* z component of Vec3::cross for two vectors in the plane.
CrossZ(a, b) == a.x * b.y - a.y * b.x

VAdd(a, b) == Vec(a.x + b.x, a.y + b.y)
VSub(a, b) == Vec(a.x - b.x, a.y - b.y)
VNeg(a) == Vec(-a.x, -a.y)
Dot(a, b) == a.x * b.x + a.y * b.y

\* Vec3::length and Vec3::distance, of positions in centimetres
VLength(a) == ISqrt(a.x * a.x + a.y * a.y)
Distance(a, b) == VLength(VSub(a, b))

\* Vec3::normalize: a unit direction in 1/DirScale
VDiv(a, k, len) == Vec(RDiv(a.x * k, len), RDiv(a.y * k, len))
Normalize(a) == VDiv(a, DirScale, VLength(a))

\* direction * scalar, the direction in 1/DirScale and the scalar in cm
DirTimes(d, k) == VDiv(d, k, DirScale)

\* direction.cross(Vec3::Z): the right-hand perpendicular
PerpRight(d) == Vec(d.y, -d.x)

\* Vec3::new(-d.y, d.x, 0.0): the left-hand perpendicular
PerpLeft(d) == Vec(-d.y, d.x)

(* Angles are in 1/AngScale radians, sines and cosines in 1/TrigScale.     *)
PI == 31416
TAU == 2 * PI
FRAC_PI_2 == PI \div 2
FRAC_PI_4 == PI \div 4

\* atan on [0, 1]: pi/4 z - z (z - 1) (0.2447 + 0.0663 z), z in 1/AngScale
AtanUnit(z) ==
    RDiv(FRAC_PI_4 * z, AngScale)
        + RDiv(RDiv(z * (AngScale - z), AngScale) * (2447 + RDiv(663 * z, AngScale)),
               AngScale)

\* atan2 in the first quadrant
AtanFirst(ay, ax) ==
    IF ax = 0 /\ ay = 0 THEN 0
    ELSE IF ay <= ax THEN AtanUnit(RDiv(ay * AngScale, ax))
    ELSE FRAC_PI_2 - AtanUnit(RDiv(ax * AngScale, ay))

\* the quadrant of (x, y) applied to the first-quadrant angle
AtanSigned(y, x, first) ==
    IF y >= 0 THEN (IF x >= 0 THEN first ELSE PI - first)
    ELSE -(IF x >= 0 THEN first ELSE PI - first)

\* f32::atan2(y, x), in (-PI, PI]
Atan2(y, x) == AtanSigned(y, x, AtanFirst(Abs(y), Abs(x)))

\* sine and cosine on [0, pi/4] by their Taylor polynomials
SinTerms(a, a2, a3) ==
    RDiv((a - RDiv(a3, 6) + RDiv(RDiv(a3 * a2, AngScale), 120)) * TrigScale, AngScale)
SinSquared(a, a2) == SinTerms(a, a2, RDiv(a2 * a, AngScale))
SinSmall(a) == SinSquared(a, RDiv(a * a, AngScale))

CosTerms(a2, a4) ==
    RDiv((AngScale - RDiv(a2, 2) + RDiv(a4, 24) - RDiv(RDiv(a4 * a2, AngScale), 720)) * TrigScale, AngScale)
CosSquared(a2) == CosTerms(a2, RDiv(a2 * a2, AngScale))
CosSmall(a) == CosSquared(RDiv(a * a, AngScale))

\* sine and cosine on [0, pi/2]
SinQ(a) == IF a <= FRAC_PI_4 THEN SinSmall(a) ELSE CosSmall(FRAC_PI_2 - a)
CosQ(a) == IF a <= FRAC_PI_4 THEN CosSmall(a) ELSE SinSmall(FRAC_PI_2 - a)

\* sine and cosine on [0, pi]
SinHalf(h) == SinQ(IF h <= FRAC_PI_2 THEN h ELSE PI - h)
CosHalf(h) == IF h <= FRAC_PI_2 THEN CosQ(h) ELSE -CosQ(PI - h)

\* sine and cosine on [0, TAU)
SinTurn(w) == IF w <= PI THEN SinHalf(w) ELSE -SinHalf(w - PI)
CosTurn(w) == IF w <= PI THEN CosHalf(w) ELSE -CosHalf(w - PI)

\* the angle brought into [0, TAU)
WrapAngle(a) == a % TAU

\* f32::sin and f32::cos
Sin(a) == SinTurn(WrapAngle(a))
Cos(a) == CosTurn(WrapAngle(a))

\* Vec3::new(angle.cos(), angle.sin(), 0.0) * radius, the radius in cm
Polar(angle, radius) ==
    Vec(RDiv(Cos(angle) * radius, TrigScale), RDiv(Sin(angle) * radius, TrigScale))

----------------------------------------------------------------------------
(* yielding.rs                                                              *)

\* u32::MAX, the "not in the queue" sentinel.  TLC's integers are 32-bit
\* signed, so the sentinel is the largest value TLC has; arrival counters of
\* the model stay far below it, as the program's stay below u32::MAX.
U32_MAX == 2147483647

\* DEADLOCK_THRESHOLD = 0.5 s
DEADLOCK_THRESHOLD == 500

\* direction_cross thresholds +-0.3, in 1/(DirScale*DirScale)
YIELD_CROSS == 300000

\* |my_path - their_path| > 0.1, in 1/TurnScale
PATH_EPS == 100

\* enum TurnType { Straight, Right(f32), Left(f32), Roundabout... }
Straight == [kind |-> "Straight", cross |-> 0]
Right(c) == [kind |-> "Right", cross |-> c]
Left(c) == [kind |-> "Left", cross |-> c]

\* TurnType::cross
TurnCross(t) ==
    CASE t.kind = "Straight" -> 0
      [] t.kind = "Right" -> t.cross
      [] t.kind = "Left" -> t.cross
      [] OTHER -> 0

\* the deadlock override with the threshold included
DeadlockRuleApplies_Ge(my_wait, their_wait) ==
    my_wait >= DEADLOCK_THRESHOLD /\ their_wait >= DEADLOCK_THRESHOLD

\* the condition of the deadlock override
DeadlockRuleApplies(my_wait, their_wait) ==
    my_wait > DEADLOCK_THRESHOLD /\ their_wait > DEADLOCK_THRESHOLD

\* the tiebreak that also grants priority on equal arrival orders
ArrivalTiebreak_Le(my_arrival, their_arrival) == my_arrival <= their_arrival

\* the tiebreak turned around: the later arrival wins
ArrivalTiebreak_Gt(my_arrival, their_arrival) == my_arrival > their_arrival

\* rule 3: earlier arrival wins
ArrivalTiebreak(my_arrival, their_arrival) == my_arrival < their_arrival

\* rules 1..3 with the turn paths compared before the headings
GeometryRules_PathFirst(my_turn, my_dir, my_arrival, their_turn, their_dir, their_arrival) ==
    LET direction_cross == CrossZ(my_dir, their_dir)
        my_path == TurnCross(my_turn)
        their_path == TurnCross(their_turn)
    IN  IF Abs(my_path - their_path) > PATH_EPS THEN my_path < their_path
        ELSE IF direction_cross < -YIELD_CROSS THEN TRUE
        ELSE IF direction_cross > YIELD_CROSS THEN FALSE
        ELSE ArrivalTiebreak(my_arrival, their_arrival)

\* rules 1..3 of has_priority: yield to the right, shorter path, tiebreak
GeometryRules(my_turn, my_dir, my_arrival, their_turn, their_dir, their_arrival) ==
    LET direction_cross == CrossZ(my_dir, their_dir)
        my_path == TurnCross(my_turn)
        their_path == TurnCross(their_turn)
    IN  IF direction_cross < -YIELD_CROSS THEN TRUE
        ELSE IF direction_cross > YIELD_CROSS THEN FALSE
        ELSE IF Abs(my_path - their_path) > PATH_EPS THEN my_path < their_path
        ELSE ArrivalTiebreak(my_arrival, their_arrival)

\* has_priority without the FIFO queue rule
has_priority_NoQueueRule(my_turn, my_dir, my_arrival, my_wait, their_turn, their_dir, their_arrival, their_wait) ==
    IF DeadlockRuleApplies(my_wait, their_wait)
    THEN my_arrival < their_arrival
    ELSE GeometryRules(my_turn, my_dir, my_arrival,
                       their_turn, their_dir, their_arrival)

\* YieldResolver::has_priority, the RightOfWay arm
has_priority(my_turn, my_dir, my_arrival, my_wait, their_turn, their_dir, their_arrival, their_wait) ==
    IF their_arrival = U32_MAX /\ my_arrival # U32_MAX THEN TRUE
    ELSE IF my_arrival = U32_MAX /\ their_arrival # U32_MAX THEN FALSE
    ELSE IF DeadlockRuleApplies(my_wait, their_wait)
    THEN my_arrival < their_arrival
    ELSE GeometryRules(my_turn, my_dir, my_arrival,
                       their_turn, their_dir, their_arrival)

----------------------------------------------------------------------------
(* road.rs: the road network and its builder.  Ids are positions in the    *)
(* arenas, counted from 1.                                                  *)

\* speed::SLOW = 5.5 m/s
SLOW == 550

\* constants of Road::finalize
INTERSECTION_RADIUS == 800
ROUNDABOUT_RADIUS == 1200
INNER_RADIUS == 700
RAMP_LENGTH == 1500
LANE_OFFSET == 175

RoundaboutEntry == [kind |-> "RoundaboutEntry", cross |-> 0]
RoundaboutCircle == [kind |-> "RoundaboutCircle", cross |-> 0]
RoundaboutExit == [kind |-> "RoundaboutExit", cross |-> 0]

\* enum SegmentGeometry
GeoStraight ==
    [kind |-> "Straight", center |-> Vec(0, 0), radius |-> 0, clockwise |-> FALSE]
GeoCurved(center, radius, clockwise) ==
    [kind |-> "Curved", center |-> center, radius |-> radius,
     clockwise |-> clockwise]

\* the angle an arc sweeps from `from` to `to`, signed by its sense
AngleOf(offset) == Atan2(offset.y, offset.x)
ArcSweep(clockwise, angle_diff) ==
    IF clockwise
    THEN (IF angle_diff > 0 THEN angle_diff - TAU ELSE angle_diff)
    ELSE (IF angle_diff < 0 THEN angle_diff + TAU ELSE angle_diff)
ArcAngleDiff(g, from, to) ==
    ArcSweep(g.clockwise,
             AngleOf(VSub(to, g.center)) - AngleOf(VSub(from, g.center)))

\* SegmentGeometry::length
GeomLength(g, from, to) ==
    IF g.kind = "Straight" THEN Distance(from, to)
    ELSE RDiv(g.radius * Abs(ArcAngleDiff(g, from, to)), AngScale)

\* SegmentGeometry::position_at, progress in 1/PScale
position_at(g, from, to, progress) ==
    IF progress <= 0 THEN from
    ELSE IF progress >= PScale THEN to
    ELSE IF g.kind = "Straight"
    THEN VAdd(from, Vec(RDiv((to.x - from.x) * progress, PScale),
                        RDiv((to.y - from.y) * progress, PScale)))
    ELSE VAdd(g.center,
              Polar(AngleOf(VSub(from, g.center))
                        + RDiv(ArcAngleDiff(g, from, to) * progress, PScale),
                    g.radius))

EmptyRoad == [nodes |-> <<>>, segments |-> <<>>, intersections |-> <<>>]

NewNode(position, is_spawn, is_despawn, yield_resolver) ==
    [position |-> position, incoming |-> <<>>, outgoing |-> <<>>,
     is_spawn |-> is_spawn, is_despawn |-> is_despawn,
     yield_resolver |-> yield_resolver]

\* Arena::alloc on the nodes: the new node has id Len(road.nodes) + 1
AllocNode(road, node) == [road EXCEPT !.nodes = Append(@, node)]
AllocSegment(road, seg) == [road EXCEPT !.segments = Append(@, seg)]

add_node(road, position) == AllocNode(road, NewNode(position, FALSE, FALSE, "None"))
add_intersection_node(road, position, yield_resolver) ==
    AllocNode(road, NewNode(position, FALSE, FALSE, yield_resolver))
add_spawn_node(road, position) ==
    AllocNode(road, NewNode(position, TRUE, FALSE, "None"))
add_despawn_node(road, position) ==
    AllocNode(road, NewNode(position, FALSE, TRUE, "None"))
add_edge_node(road, position) ==
    AllocNode(road, NewNode(position, TRUE, TRUE, "None"))

\* Road::add_segment
add_segment(road, from, to, speed_limit) ==
    [AllocSegment(road,
         [from |-> from, to |-> to, speed_limit |-> speed_limit,
          geometry |-> GeoStraight,
          length |-> GeomLength(GeoStraight, road.nodes[from].position,
                                road.nodes[to].position),
          turn_type |-> Straight])
     EXCEPT !.nodes[from].outgoing = Append(@, Len(road.segments) + 1),
            !.nodes[to].incoming = Append(@, Len(road.segments) + 1)]

\* Road::add_bidirectional
add_bidirectional(road, a, b, speed_limit) ==
    add_segment(add_segment(road, a, b, speed_limit), b, a, speed_limit)

\* the folds that stand for the for loops: Op applied to the elements of
\* seq in their order, starting from acc.  The list is folded by halves, the
\* first half before the second, and acc is evaluated before the step.
RECURSIVE FoldSeq(_, _, _)
FoldSeq(Op(_, _), acc, seq) ==
    IF acc = acc /\ Len(seq) <= 1
    THEN IF seq = <<>> THEN acc ELSE Op(acc, seq[1])
    ELSE LET half == Len(seq) \div 2
         IN  FoldSeq(Op, FoldSeq(Op, acc, SubSeq(seq, 1, half)),
                     SubSeq(seq, half + 1, Len(seq)))

SeqContains(seq, x) == \E i \in 1..Len(seq) : seq[i] = x

\* Vec::retain(|&id| id != x)
SeqWithout(seq, x) == SelectSeq(seq, LAMBDA y : y # x)

(* HashMap: a function on the set of its keys                              *)
EmptyMap == <<>>
MapPut(m, k, v) == (k :> v) @@ m
MapHas(m, k) == k \in DOMAIN m

\* HashMap::entry(k).or_default().push(v)
MapPush(m, k, v) == MapPut(m, k, Append(IF MapHas(m, k) THEN m[k] ELSE <<>>, v))

----------------------------------------------------------------------------
(* Road::finalize, pass 1: collect the intersection data.                  *)

\* the angle normalised so that -PI becomes PI (within 0.0001 rad)
NormAngle(a) == IF a <= -PI + 1 THEN PI ELSE a

\* the edge position of an arm: the point on its axis at edge_distance from
\* the node (behind it for an entry: a negative distance), moved to the lane
EdgePosition(node_position, direction, edge_distance) ==
    VAdd(VAdd(node_position, DirTimes(direction, edge_distance)),
         DirTimes(PerpRight(direction), LANE_OFFSET))

EntryTowards(segment_id, node_position, direction, edge_distance) ==
    [segment_id |-> segment_id,
     position |-> EdgePosition(node_position, direction, -edge_distance),
     direction |-> direction,
     angle |-> NormAngle(Atan2(-direction.y, -direction.x))]

EntryDataOf(road, node, segment_id, edge_distance) ==
    EntryTowards(segment_id, node.position,
                 Normalize(VSub(node.position,
                                road.nodes[road.segments[segment_id].from].position)),
                 edge_distance)

ExitTowards(segment_id, node_position, direction, edge_distance) ==
    [segment_id |-> segment_id,
     position |-> EdgePosition(node_position, direction, edge_distance),
     direction |-> direction,
     angle |-> NormAngle(Atan2(direction.y, direction.x))]

ExitDataOf(road, node, segment_id, edge_distance) ==
    ExitTowards(segment_id, node.position,
                Normalize(VSub(road.nodes[road.segments[segment_id].to].position,
                               node.position)),
                edge_distance)

\* Option<YieldResolver>::unwrap_or_default
UnwrapResolver(y) == IF y = "None" THEN "RightOfWay" ELSE y

IntersectionDataOf(road, node_id) ==
    LET node == road.nodes[node_id]
        is_roundabout == node.yield_resolver = "Roundabout"
        radius == IF is_roundabout THEN ROUNDABOUT_RADIUS ELSE INTERSECTION_RADIUS
        edge_distance == IF is_roundabout THEN radius + RAMP_LENGTH ELSE radius
    IN  [node_id |-> node_id, position |-> node.position,
         entries |-> [i \in 1..Len(node.incoming) |->
                         EntryDataOf(road, node, node.incoming[i], edge_distance)],
         exits |-> [i \in 1..Len(node.outgoing) |->
                       ExitDataOf(road, node, node.outgoing[i], edge_distance)],
         yield_resolver |-> UnwrapResolver(node.yield_resolver)]

Ids(n) == [i \in 1..n |-> i]

CollectIntersections(road) ==
    LET multi == SelectSeq(Ids(Len(road.nodes)),
                     LAMBDA id : /\ Len(road.nodes[id].incoming) > 1
                                 /\ Len(road.nodes[id].outgoing) > 1)
    IN  [i \in 1..Len(multi) |-> IntersectionDataOf(road, multi[i])]

----------------------------------------------------------------------------
(* Road::finalize, pass 2: edge nodes, rewiring, micro-segments.  The      *)
(* state of the pass is the road and the lists the loop body fills.        *)

\* 2a without the push onto the entry node's incoming list
AddEntryEdge_NoPush(st, entry) ==
    [st EXCEPT
        !.road = [add_node(st.road, entry.position)
                      EXCEPT !.segments[entry.segment_id].to =
                                 Len(st.road.nodes) + 1],
        !.entry_node_ids = Append(@, Len(st.road.nodes) + 1)]

\* 2a: an entry edge node; the incoming segment now ends there
AddEntryEdge(st, entry) ==
    LET entry_node_id == Len(st.road.nodes) + 1
        r1 == add_node(st.road, entry.position)
        r2 == [r1 EXCEPT !.segments[entry.segment_id].to = entry_node_id]
        r3 == [r2 EXCEPT !.nodes[entry_node_id].incoming =
                             Append(@, entry.segment_id)]
    IN  [st EXCEPT !.road = r3,
                   !.entry_node_ids = Append(@, entry_node_id)]

\* 2b: an exit edge node; the outgoing segment now starts there
AddExitEdge(st, exit) ==
    LET exit_node_id == Len(st.road.nodes) + 1
        r1 == add_node(st.road, exit.position)
        r2 == [r1 EXCEPT !.segments[exit.segment_id].from = exit_node_id]
        r3 == [r2 EXCEPT !.nodes[exit_node_id].outgoing =
                             Append(@, exit.segment_id)]
    IN  [st EXCEPT !.road = r3,
                   !.exit_node_ids = Append(@, exit_node_id)]

\* a micro-segment is allocated and wired to its two nodes
AllocMicro(road, from, to, geometry, turn_type, length) ==
    [AllocSegment(road,
         [from |-> from, to |-> to, speed_limit |-> SLOW,
          geometry |-> geometry, length |-> length, turn_type |-> turn_type])
     EXCEPT !.nodes[from].outgoing = Append(@, Len(road.segments) + 1),
            !.nodes[to].incoming = Append(@, Len(road.segments) + 1)]

\* a micro-segment that is left out of entry_directions
AddMicro_NoDirection(st, from, to, geometry, turn_type, direction, is_incoming, is_outgoing) ==
    [st EXCEPT
        !.road = AllocMicro(@, from, to, geometry, turn_type,
                            GeomLength(geometry, st.road.nodes[from].position,
                                       st.road.nodes[to].position)),
        !.incoming = IF is_incoming THEN Append(@, Len(st.road.segments) + 1) ELSE @,
        !.outgoing = IF is_outgoing THEN Append(@, Len(st.road.segments) + 1) ELSE @]

\* a micro-segment of an intersection: allocated with the length of its
\* geometry, entered in entry_directions and in the lists it belongs to
AddMicro(st, from, to, geometry, turn_type, direction, is_incoming, is_outgoing) ==
    [st EXCEPT
        !.road = AllocMicro(@, from, to, geometry, turn_type,
                            GeomLength(geometry, st.road.nodes[from].position,
                                       st.road.nodes[to].position)),
        !.entry_directions = MapPut(@, Len(st.road.segments) + 1, direction),
        !.incoming = IF is_incoming THEN Append(@, Len(st.road.segments) + 1) ELSE @,
        !.outgoing = IF is_outgoing THEN Append(@, Len(st.road.segments) + 1) ELSE @]

\* the arc around the crossing point of the two perpendiculars
TurnArcAround(entry, center, clockwise) ==
    GeoCurved(center, VLength(VSub(entry.position, center)), clockwise)

\* t in cm; 1.0 is the fallback for parallel lines
TurnArcFrom(entry, exit, entry_perp, exit_perp, d, clockwise) ==
    TurnArcAround(entry,
        VAdd(entry.position,
             DirTimes(entry_perp,
                 IF Abs(d) > (DirScale * DirScale) \div 1000
                 THEN RDiv((exit.position.x - entry.position.x) * exit_perp.y
                               - (exit.position.y - entry.position.y) * exit_perp.x,
                           RDiv(d, DirScale))
                 ELSE 100)),
        clockwise)

TurnArcPerps(entry, exit, entry_perp, exit_perp, clockwise) ==
    TurnArcFrom(entry, exit, entry_perp, exit_perp,
                entry_perp.x * exit_perp.y - entry_perp.y * exit_perp.x, clockwise)

VTimes(v, k) == Vec(v.x * k, v.y * k)

TurnArcSigned(entry, exit, sign) ==
    TurnArcPerps(entry, exit, VTimes(PerpRight(entry.direction), sign),
                 VTimes(PerpRight(exit.direction), sign), sign = 1)

\* the arc of a turn of a regular intersection
TurnArc(entry, exit) ==
    TurnArcSigned(entry, exit,
                  IF CrossZ(entry.direction, exit.direction) < 0 THEN 1 ELSE -1)

\* the turn type of a turn from its dot and cross products
TurnTypeOf(is_straight, cross) ==
    IF is_straight THEN Straight
    ELSE IF cross < 0 THEN Right(Abs(RDiv(cross * TurnScale, DirScale * DirScale)))
    ELSE Left(RDiv(cross * TurnScale, DirScale * DirScale))

\* a loop body that makes a micro-segment for every pair, U-turns included
AddTurnOf_WithUTurns(st, entry, exit, entry_node_id, exit_node_id, dot, is_straight) ==
    AddMicro(st, entry_node_id, exit_node_id,
             IF is_straight THEN GeoStraight ELSE TurnArc(entry, exit),
             TurnTypeOf(is_straight, CrossZ(entry.direction, exit.direction)),
             entry.direction, TRUE, TRUE)

AddTurnOf(st, entry, exit, entry_node_id, exit_node_id, dot, is_straight) ==
    IF 10 * dot < -9 * DirScale * DirScale
    THEN st     \* a U-turn is skipped
    ELSE AddMicro(st, entry_node_id, exit_node_id,
                  IF is_straight THEN GeoStraight ELSE TurnArc(entry, exit),
                  TurnTypeOf(is_straight, CrossZ(entry.direction, exit.direction)),
                  entry.direction, TRUE, TRUE)

AddTurnDot(st, entry, exit, entry_node_id, exit_node_id, dot) ==
    AddTurnOf(st, entry, exit, entry_node_id, exit_node_id, dot,
              100 * dot > 95 * DirScale * DirScale)

\* 2c, regular intersection: the body of the loop over (entry, exit)
AddTurn(st, data, entry_idx, exit_idx) ==
    AddTurnDot(st, data.entries[entry_idx], data.exits[exit_idx],
               st.entry_node_ids[entry_idx], st.exit_node_ids[exit_idx],
               Dot(data.entries[entry_idx].direction,
                   data.exits[exit_idx].direction))

\* the pairs (entry_idx, exit_idx) in the order of the nested loops
IndexPairs(n, m) == [k \in 1..(n * m) |-> <<((k - 1) \div m) + 1, ((k - 1) % m) + 1>>]

ExpandRegular(st, data) ==
    FoldSeq(LAMBDA acc, pr : AddTurn(acc, data, pr[1], pr[2]),
            st, IndexPairs(Len(data.entries), Len(data.exits)))

(* 2c, roundabout                                                           *)

\* the indices of `items` in ascending order of angle (sort_by is stable)
RECURSIVE InsertByAngle(_, _, _)
InsertByAngle(sorted, items, i) ==
    IF sorted = <<>> THEN <<i>>
    ELSE IF items[i].angle < items[Head(sorted)].angle THEN <<i>> \o sorted
    ELSE <<Head(sorted)>> \o InsertByAngle(Tail(sorted), items, i)

SortByAngle(items) ==
    FoldSeq(LAMBDA acc, i : InsertByAngle(acc, items, i), <<>>, Ids(Len(items)))

\* the arc around center
ArcAround(p1, dir1, center) ==
    GeoCurved(center, VLength(VSub(p1, center)),
              Dot(VSub(center, p1), PerpRight(dir1)) > 0)

\* the center: on the perpendicular of dir1 through p1 and on the
\* perpendicular bisector of p1 p2; the midpoint when the two are parallel
ArcCenter(p1, perp1, mid, perp_bisector, det) ==
    IF Abs(det) < (DirScale * DirScale) \div 10000 THEN mid
    ELSE VAdd(p1, DirTimes(perp1,
                      RDiv(((mid.x - p1.x) * (-perp_bisector.y)
                               - (mid.y - p1.y) * (-perp_bisector.x)) * 10,
                           RDiv(det, DirScale \div 10))))

ArcBisected(p1, dir1, perp1, mid, perp_bisector) ==
    ArcAround(p1, dir1,
              ArcCenter(p1, perp1, mid, perp_bisector,
                        perp1.x * (-perp_bisector.y) - perp1.y * (-perp_bisector.x)))

\* the closure compute_arc: the arc that leaves p1 heading dir1 and ends at p2
compute_arc(p1, dir1, p2) ==
    ArcBisected(p1, dir1, PerpLeft(dir1),
                Vec(RDiv(p1.x + p2.x, 2), RDiv(p1.y + p2.y, 2)),
                Normalize(PerpLeft(VSub(p2, p1))))

\* the A node and the inner node of one arm
AddArmNodesAt(st, data, a_angle) ==
    [st EXCEPT
        !.road = add_node(add_node(@, VAdd(data.position,
                                           Polar(a_angle, ROUNDABOUT_RADIUS))),
                          VAdd(data.position, Polar(a_angle, INNER_RADIUS))),
        !.a_nodes = Append(@, Len(st.road.nodes) + 1),
        !.inner_nodes = Append(@, Len(st.road.nodes) + 2)]

AddArmNodes(st, data, entry) == AddArmNodesAt(st, data, entry.angle + FRAC_PI_4)

AddBNode(st, data, exit) ==
    [st EXCEPT
        !.road = add_node(@, VAdd(data.position,
                                  Polar(exit.angle - FRAC_PI_4, ROUNDABOUT_RADIUS))),
        !.b_nodes = Append(@, Len(st.road.nodes) + 1)]

\* the counter-clockwise tangent of the circle at pos
CcwTangent(data, pos) == PerpLeft(Normalize(VSub(pos, data.position)))

\* an arc of the roundabout that leaves `from` heading `direction`
AddArc(st, from, to, direction, turn_type, is_incoming, is_outgoing) ==
    AddMicro(st, from, to,
             compute_arc(st.road.nodes[from].position, direction,
                         st.road.nodes[to].position),
             turn_type, direction, is_incoming, is_outgoing)

\* on-ramp: entry edge -> A
AddOnRamp(st, data, sorted_entries, sorted_idx) ==
    AddArc(st, st.entry_node_ids[sorted_entries[sorted_idx]],
           st.a_nodes[sorted_idx],
           data.entries[sorted_entries[sorted_idx]].direction,
           RoundaboutEntry, TRUE, FALSE)

\* a segment of the roundabout that leaves `from` along the circle
AddTangent(st, data, from, to, geometry, turn_type, is_incoming, is_outgoing) ==
    AddMicro(st, from, to, geometry, turn_type,
             CcwTangent(data, st.road.nodes[from].position),
             is_incoming, is_outgoing)

\* bypass: A -> the next arm's B, on the outer circle
AddBypass(st, data, num_arms, sorted_idx) ==
    AddTangent(st, data, st.a_nodes[sorted_idx],
               st.b_nodes[(sorted_idx % num_arms) + 1],
               GeoCurved(data.position, ROUNDABOUT_RADIUS, FALSE),
               RoundaboutCircle, TRUE, TRUE)

\* off-ramp: B -> exit edge
AddOffRamp(st, data, sorted_exits, sorted_idx) ==
    AddArc(st, st.b_nodes[sorted_idx],
           st.exit_node_ids[sorted_exits[sorted_idx]],
           CcwTangent(data, st.road.nodes[st.b_nodes[sorted_idx]].position),
           RoundaboutExit, FALSE, TRUE)

\* A -> inner: a straight segment
AddInward(st, data, sorted_idx) ==
    AddTangent(st, data, st.a_nodes[sorted_idx], st.inner_nodes[sorted_idx],
               GeoStraight, RoundaboutEntry, TRUE, FALSE)

\* inner circle: inner i -> inner i+1
AddInnerCircle(st, data, num_arms, i) ==
    AddTangent(st, data, st.inner_nodes[i], st.inner_nodes[(i % num_arms) + 1],
               GeoCurved(data.position, INNER_RADIUS, FALSE),
               RoundaboutCircle, TRUE, TRUE)

\* inner i -> the next arm's B
AddOutward(st, data, num_arms, i) ==
    AddArc(st, st.inner_nodes[i], st.b_nodes[(i % num_arms) + 1],
           CcwTangent(data, st.road.nodes[st.inner_nodes[i]].position),
           RoundaboutExit, FALSE, TRUE)

\* the eight loops of the roundabout, over the arms in ascending angle
RoundaboutLoops(st, data, arms, sorted_entries, sorted_exits) ==
    FoldSeq(LAMBDA s7, i : AddOutward(s7, data, Len(arms), i),
      FoldSeq(LAMBDA s6, i : AddInnerCircle(s6, data, Len(arms), i),
        FoldSeq(LAMBDA s5, i : AddInward(s5, data, i),
          FoldSeq(LAMBDA s4, i : AddOffRamp(s4, data, sorted_exits, i),
            FoldSeq(LAMBDA s3, i : AddBypass(s3, data, Len(arms), i),
              FoldSeq(LAMBDA s2, i : AddOnRamp(s2, data, sorted_entries, i),
                FoldSeq(LAMBDA s1, i : AddBNode(s1, data, data.exits[i]),
                  FoldSeq(LAMBDA s0, i : AddArmNodes(s0, data, data.entries[i]),
                          st, sorted_entries),
                  sorted_exits),
                Ids(Len(sorted_entries))),
              arms),
            Ids(Len(sorted_exits))),
          arms),
        arms),
      arms)

ExpandRoundabout(st, data) ==
    RoundaboutLoops(st, data, Ids(Len(data.entries)),
                    SortByAngle(data.entries), SortByAngle(data.exits))

\* pass 2 for one intersection: 2a, 2b, 2c and 2d
EdgeNodesOf(road, data) ==
    FoldSeq(AddExitEdge,
            FoldSeq(AddEntryEdge,
                    [road |-> road, entry_node_ids |-> <<>>, exit_node_ids |-> <<>>,
                     a_nodes |-> <<>>, b_nodes |-> <<>>, inner_nodes |-> <<>>,
                     incoming |-> <<>>, outgoing |-> <<>>,
                     entry_directions |-> EmptyMap],
                    data.entries),
            data.exits)

MicroSegmentsOf(st, data) ==
    IF data.yield_resolver = "Roundabout"
    THEN ExpandRoundabout(st, data)
    ELSE ExpandRegular(st, data)

\* 2d without the clearing of the original node's lists
RecordIntersection_NoClear(st, data) ==
    [st.road EXCEPT
        !.intersections =
            Append(@, [position |-> data.position,
                       incoming |-> st.incoming,
                       outgoing |-> st.outgoing,
                       edge_nodes |-> st.entry_node_ids \o st.exit_node_ids,
                       conflicts |-> EmptyMap,
                       entry_directions |-> st.entry_directions,
                       yield_resolver |->
                           UnwrapResolver(st.road.nodes[data.node_id].yield_resolver),
                       arrival_counter |-> 0])]

\* 2d: the intersection is recorded and the original node is cleared
RecordIntersection(st, data) ==
    [st.road EXCEPT
        !.intersections =
            Append(@, [position |-> data.position,
                       incoming |-> st.incoming,
                       outgoing |-> st.outgoing,
                       edge_nodes |-> st.entry_node_ids \o st.exit_node_ids,
                       conflicts |-> EmptyMap,
                       entry_directions |-> st.entry_directions,
                       yield_resolver |->
                           UnwrapResolver(st.road.nodes[data.node_id].yield_resolver),
                       arrival_counter |-> 0]),
        !.nodes[data.node_id].incoming = <<>>,
        !.nodes[data.node_id].outgoing = <<>>]

ExpandIntersection(road, data) ==
    RecordIntersection(MicroSegmentsOf(EdgeNodesOf(road, data), data), data)

FinalizePass2(road) == FoldSeq(ExpandIntersection, road, CollectIntersections(road))

----------------------------------------------------------------------------
(* Road::finalize, pass 3: the lane offset of the straight segments.       *)

SeqToSet(seq) == {seq[i] : i \in 1..Len(seq)}

EdgeNodeIds(road) ==
    UNION {SeqToSet(road.intersections[i].edge_nodes) :
               i \in 1..Len(road.intersections)}

\* the offsets taken to the left of the direction of travel
OffsetDataOf_Left(road, seg_id) ==
    LET seg == road.segments[seg_id]
        from_node == road.nodes[seg.from]
        to_node == road.nodes[seg.to]
        direction == Normalize(VSub(to_node.position, from_node.position))
        perpendicular == PerpLeft(direction)
    IN  [seg_id |-> seg_id, old_from |-> seg.from, old_to |-> seg.to,
         from_offset_pos |->
             VAdd(from_node.position, DirTimes(perpendicular, LANE_OFFSET)),
         to_offset_pos |->
             VAdd(to_node.position, DirTimes(perpendicular, LANE_OFFSET)),
         from_is_edge |-> seg.from \in EdgeNodeIds(road),
         to_is_edge |-> seg.to \in EdgeNodeIds(road),
         from_is_spawn |-> from_node.is_spawn,
         to_is_despawn |-> to_node.is_despawn]

\* one element of segments_to_offset, taken before any node is changed
OffsetDataOf(road, seg_id) ==
    LET seg == road.segments[seg_id]
        from_node == road.nodes[seg.from]
        to_node == road.nodes[seg.to]
        direction == Normalize(VSub(to_node.position, from_node.position))
        perpendicular == PerpRight(direction)
    IN  [seg_id |-> seg_id, old_from |-> seg.from, old_to |-> seg.to,
         from_offset_pos |->
             VAdd(from_node.position, DirTimes(perpendicular, LANE_OFFSET)),
         to_offset_pos |->
             VAdd(to_node.position, DirTimes(perpendicular, LANE_OFFSET)),
         from_is_edge |-> seg.from \in EdgeNodeIds(road),
         to_is_edge |-> seg.to \in EdgeNodeIds(road),
         from_is_spawn |-> from_node.is_spawn,
         to_is_despawn |-> to_node.is_despawn]

SegmentsToOffset(road) ==
    LET straight == SelectSeq(Ids(Len(road.segments)),
                        LAMBDA id : road.segments[id].geometry.kind = "Straight")
    IN  [i \in 1..Len(straight) |-> OffsetDataOf(road, straight[i])]

\* a source side that copies both flags of the old node to the new one
OffsetFrom_BothFlags(road, o) ==
    IF o.from_is_edge THEN road
    ELSE LET r1 == AllocNode(road, NewNode(o.from_offset_pos, o.from_is_spawn,
                                           road.nodes[o.old_from].is_despawn,
                                           "None"))
         IN  [r1 EXCEPT !.nodes[o.old_from].outgoing = SeqWithout(@, o.seg_id),
                        !.nodes[o.old_from].is_spawn = FALSE,
                        !.nodes[o.old_from].is_despawn = FALSE]

\* the source side of the loop body
OffsetFrom(road, o) ==
    IF o.from_is_edge THEN road
    ELSE LET r1 == AllocNode(road, NewNode(o.from_offset_pos, o.from_is_spawn,
                                           FALSE, "None"))
         IN  [r1 EXCEPT !.nodes[o.old_from].outgoing = SeqWithout(@, o.seg_id),
                        !.nodes[o.old_from].is_spawn = FALSE,
                        !.nodes[o.old_from].is_despawn = FALSE]

\* the destination side of the loop body
OffsetTo(road, o) ==
    IF o.to_is_edge THEN road
    ELSE LET r1 == AllocNode(road, NewNode(o.to_offset_pos, FALSE,
                                           o.to_is_despawn, "None"))
         IN  [r1 EXCEPT !.nodes[o.old_to].incoming = SeqWithout(@, o.seg_id),
                        !.nodes[o.old_to].is_spawn = FALSE,
                        !.nodes[o.old_to].is_despawn = FALSE]

OffsetSegment(road, o) ==
    LET r1 == OffsetFrom(road, o)
        new_from == IF o.from_is_edge THEN o.old_from ELSE Len(r1.nodes)
        r2 == OffsetTo(r1, o)
        new_to == IF o.to_is_edge THEN o.old_to ELSE Len(r2.nodes)
        from_pos == r2.nodes[new_from].position
        to_pos == r2.nodes[new_to].position
        r3 == [r2 EXCEPT
                  !.segments[o.seg_id].from = new_from,
                  !.segments[o.seg_id].to = new_to,
                  !.segments[o.seg_id].length =
                      GeomLength(r2.segments[o.seg_id].geometry, from_pos, to_pos)]
        r4 == IF o.from_is_edge THEN r3
              ELSE [r3 EXCEPT !.nodes[new_from].outgoing = Append(@, o.seg_id)]
    IN  IF o.to_is_edge THEN r4
        ELSE [r4 EXCEPT !.nodes[new_to].incoming = Append(@, o.seg_id)]

FinalizePass3(road) == FoldSeq(OffsetSegment, road, SegmentsToOffset(road))

----------------------------------------------------------------------------
(* Road::finalize, pass 4: the conflict table.                             *)

\* const POINTS: usize = 10
POINTS == 10

\* the distance below which two sampled points conflict: 2.0 m
CONFLICT_DISTANCE == 200

SamplePoints(road, seg_id) ==
    LET seg == road.segments[seg_id]
        from == road.nodes[seg.from].position
        to == road.nodes[seg.to].position
    IN  [i \in 0..POINTS |->
            position_at(seg.geometry, from, to, RDiv(i * PScale, POINTS))]

do_segments_conflict(road, a, b) ==
    LET a_points == SamplePoints(road, a)
        b_points == SamplePoints(road, b)
    IN  \E i \in 0..POINTS : \E j \in 0..POINTS :
            Distance(a_points[i], b_points[j]) < CONFLICT_DISTANCE

RoundaboutConflict(road, a, b) ==
    LET seg_a == road.segments[a]
        seg_b == road.segments[b]
        a_is_entry == seg_a.turn_type = RoundaboutEntry
        b_is_entry == seg_b.turn_type = RoundaboutEntry
        a_is_circle == seg_a.turn_type = RoundaboutCircle
        b_is_circle == seg_b.turn_type = RoundaboutCircle
    IN  IF a_is_entry /\ b_is_circle THEN seg_a.to = seg_b.to
        ELSE IF b_is_entry /\ a_is_circle THEN seg_b.to = seg_a.to
        ELSE FALSE

SegmentsConflict(road, is_roundabout, a, b) ==
    IF is_roundabout THEN RoundaboutConflict(road, a, b)
    ELSE do_segments_conflict(road, a, b)

\* the pairs (i, j), i < j, of positions of a list, in the order of the loops
OrderedPairs(n) ==
    SelectSeq(IndexPairs(n, n), LAMBDA pr : pr[1] < pr[2])

\* a conflict table that records a conflict under the first segment only
ConflictsOf_OneWay(road, inter) ==
    LET is_roundabout == inter.yield_resolver = "Roundabout"
        step(acc, pr) ==
            LET a == inter.incoming[pr[1]]
                b == inter.incoming[pr[2]]
            IN  IF SegmentsConflict(road, is_roundabout, a, b)
                THEN MapPush(acc, a, b)
                ELSE acc
    IN  FoldSeq(step, EmptyMap, OrderedPairs(Len(inter.incoming)))

ConflictsOf(road, inter) ==
    LET is_roundabout == inter.yield_resolver = "Roundabout"
        step(acc, pr) ==
            LET a == inter.incoming[pr[1]]
                b == inter.incoming[pr[2]]
            IN  IF SegmentsConflict(road, is_roundabout, a, b)
                THEN MapPush(MapPush(acc, a, b), b, a)
                ELSE acc
    IN  FoldSeq(step, EmptyMap, OrderedPairs(Len(inter.incoming)))

FinalizePass4(road) ==
    [road EXCEPT !.intersections =
        [i \in 1..Len(road.intersections) |->
            [road.intersections[i] EXCEPT
                !.conflicts = ConflictsOf(road, road.intersections[i])]]]

\* finalize panics (index out of bounds) in the expansion of a roundabout
\* that has more entries than exits: b_nodes has one element per exit and is
\* indexed by (sorted_idx + 1) % num_arms, num_arms being the number of
\* entries
finalize_panics(road) ==
    \E i \in 1..Len(CollectIntersections(road)) :
        /\ CollectIntersections(road)[i].yield_resolver = "Roundabout"
        /\ Len(CollectIntersections(road)[i].entries)
               > Len(CollectIntersections(road)[i].exits)

\* Road::finalize
finalize(road) == FinalizePass4(FinalizePass3(FinalizePass2(road)))

----------------------------------------------------------------------------
(* The road networks of the model.                                          *)

\* speed limits of the scenario roads: 13.9 m/s (speed::URBAN)
URBAN == 1390

\* Two segments in a row, driven as built (finalize is not called): a spawn
\* node, a plain node and a despawn node; the second segment is 1 m long.
RoadChain ==
    LET r1 == add_spawn_node(EmptyRoad, Vec(0, 0))
        r2 == add_node(r1, Vec(1000, 0))
        r3 == add_despawn_node(r2, Vec(1100, 0))
        r4 == add_segment(r3, 1, 2, URBAN)
    IN  add_segment(r4, 2, 3, URBAN)

\* Two regular intersections in a row: a two-way one (node 1) and a
\* three-way one (node 2), with edge nodes west, north and south.
RawCross ==
    LET r1 == add_intersection_node(EmptyRoad, Vec(0, 0), "RightOfWay")
        r2 == add_intersection_node(r1, Vec(3000, 0), "RightOfWay")
        r3 == add_edge_node(r2, Vec(-2000, 0))
        r4 == add_edge_node(r3, Vec(3000, 2000))
        r5 == add_edge_node(r4, Vec(3000, -2000))
        r6 == add_bidirectional(r5, 3, 1, URBAN)
        r7 == add_bidirectional(r6, 1, 2, URBAN)
        r8 == add_bidirectional(r7, 4, 2, URBAN)
    IN  add_bidirectional(r8, 5, 2, URBAN)

RoadCross == finalize(RawCross)

\* A roundabout at the origin with three arms, 120 degrees apart.
RawRoundabout ==
    LET r1 == add_intersection_node(EmptyRoad, Vec(0, 0), "Roundabout")
        r2 == add_edge_node(r1, Vec(4500, 0))
        r3 == add_edge_node(r2, Vec(-2250, 3897))
        r4 == add_edge_node(r3, Vec(-2250, -3897))
        r5 == add_bidirectional(r4, 2, 1, URBAN)
        r6 == add_bidirectional(r5, 3, 1, URBAN)
    IN  add_bidirectional(r6, 4, 1, URBAN)

RoadRoundabout == finalize(RawRoundabout)

\* the roundabout after pass 2, as the expansion built it
BuiltRoundabout == FinalizePass2(RawRoundabout)

----------------------------------------------------------------------------
(* Option<T>: None is the empty tuple, Some(v) the tuple of v               *)
None == <<>>
Some(v) == <<v>>
IsSome(o) == o # <<>>
Unwrap(o) == o[1]
UnwrapOr(o, d) == IF o = <<>> THEN d ELSE o[1]

\* Vec::get(1): the second element of a route, when there is one
RouteGet1(route) == IF Len(route) >= 2 THEN Some(route[2]) ELSE None

\* f32::MAX: larger than every distance and every time of the model
F32_MAX == 2000000000

----------------------------------------------------------------------------
(* pathfinding.rs                                                           *)

\* a first loop that enqueues the first neighbour only
BfsStart_FirstOnly(road, current) ==
    IF road.nodes[current].outgoing = <<>>
    THEN [queue |-> <<>>, came_from |-> EmptyMap, found |-> FALSE]
    ELSE [queue |-> <<road.segments[road.nodes[current].outgoing[1]].to>>,
          came_from |->
              MapPut(EmptyMap,
                     road.segments[road.nodes[current].outgoing[1]].to,
                     road.nodes[current].outgoing[1]),
          found |-> FALSE]

\* the first loop: the neighbours of the start node are enqueued, and
\* HashMap::insert overwrites an earlier segment to the same neighbour
BfsStart(road, current) ==
    FoldSeq(LAMBDA acc, segment_id :
                LET neighbor == road.segments[segment_id].to
                IN  [acc EXCEPT
                        !.queue = Append(@, neighbor),
                        !.came_from = MapPut(@, neighbor, segment_id)],
            [queue |-> <<>>, came_from |-> EmptyMap, found |-> FALSE],
            road.nodes[current].outgoing)

\* an expansion that enqueues nothing
BfsExpand_Nothing(road, st, node_id) == st

\* an expansion that enqueues every neighbour again: insert in the place of
\* entry(neighbor).or_insert_with(..)
BfsExpand_Revisit(road, st, node_id) ==
    FoldSeq(LAMBDA acc, segment_id :
                LET neighbor == road.segments[segment_id].to
                IN  [acc EXCEPT
                        !.queue = Append(@, neighbor),
                        !.came_from = MapPut(@, neighbor, segment_id)],
            st, road.nodes[node_id].outgoing)

\* the expansion of one dequeued node: entry(neighbor).or_insert_with(..)
BfsExpand(road, st, node_id) ==
    FoldSeq(LAMBDA acc, segment_id :
                LET neighbor == road.segments[segment_id].to
                IN  IF MapHas(acc.came_from, neighbor) THEN acc
                    ELSE [acc EXCEPT
                             !.queue = Append(@, neighbor),
                             !.came_from = MapPut(@, neighbor, segment_id)],
            st, road.nodes[node_id].outgoing)

\* one turn of the while loop: pop_front, the test for the destination, the
\* expansion; nothing once the destination is found or the queue is empty
BfsTurn(road, destination, st) ==
    IF st.found \/ st.queue = <<>> THEN st
    ELSE LET node_id == Head(st.queue)
         IN  IF node_id = destination THEN [st EXCEPT !.found = TRUE]
             ELSE BfsExpand(road, [st EXCEPT !.queue = Tail(@)], node_id)

\* the result of the while loop
BfsResult(end) == IF end.found THEN Some(end.came_from) ELSE None

\* the while loop: the came_from map when the destination is dequeued,
\* None when the queue runs empty.  Every push is for one segment, so the
\* loop takes no more turns than there are segments.
BfsLoop(road, destination, st) ==
    BfsResult(FoldSeq(LAMBDA acc, turn : BfsTurn(road, destination, acc),
                      st, Ids(Len(road.segments) + 1)))

\* one step of the backtracking loop: the segment that reached `backtrack`
\* is put in front of the route
RECURSIVE Backtrack(_, _, _, _, _)
BacktrackVia(road, current, came_from, previous_id, route) ==
    IF road.segments[previous_id].from = current THEN <<previous_id>> \o route
    ELSE Backtrack(road, current, came_from, road.segments[previous_id].from,
                   <<previous_id>> \o route)

\* the backtracking loop, from the destination to the start node; the
\* segments it passes, in the order of travel
Backtrack(road, current, came_from, backtrack, route) ==
    BacktrackVia(road, current, came_from, came_from[backtrack], route)

\* the route from the came_from map of the search
RouteFrom(road, current, destination, found) ==
    IF found = None THEN None
    ELSE Some(Backtrack(road, current, Unwrap(found), destination, <<>>))

\* the route variant of the pathfinder that vehicle.rs calls: the full route
RouteToward(road, current, destination) ==
    IF current = destination THEN None
    ELSE RouteFrom(road, current, destination,
                   BfsLoop(road, destination, BfsStart(road, current)))

\* the first segment of a route together with the route
FirstAndRoute(r) == IF r = None THEN None ELSE Some(<<Unwrap(r)[1], Unwrap(r)>>)

\* next_segment_toward: Some(<<first segment, route>>) or None
next_segment_toward(road, current, destination) ==
    FirstAndRoute(RouteToward(road, current, destination))

----------------------------------------------------------------------------
(* Vehicle::new, Idm::new, GapAcceptance::new                               *)

\* aggression and the random draws are in 1/1000
RandScale == 1000

DEFAULT_CAR_LENGTH == 450
DEFAULT_CAR_WIDTH == 180

lerp(a, b, t) == a + RDiv((b - a) * t, RandScale)

\* blend: `draw` is rand::random::<f32>() * 2.0 - 1.0, in [-1, 1)
blend(safe_value, aggressive_value, aggression, max_random_range, draw) ==
    lerp(safe_value, aggressive_value, aggression)
        + RDiv(max_random_range * draw, RandScale)

\* Idm::new; times in ms, distances in cm, accelerations in cm/s^2
IdmNew(aggression, draws) ==
    [aggression |-> aggression,
     desired_time_headway |-> Max(blend(1500, 800, aggression, 200, draws[1]), 500),
     min_spacing |-> Max(blend(200, 100, aggression, 50, draws[2]), 50),
     max_acceleration |-> Max(blend(100, 300, aggression, 50, draws[3]), 50),
     comfortable_deceleration |->
         Max(blend(150, 300, aggression, 50, draws[4]), 50)]

\* GapAcceptance::new
GapAcceptanceNew(aggression, draw) ==
    [min_gap |-> blend(1500, 1000, aggression, 200, draw),
     waiting_time |-> None,
     cleared_to_go |-> FALSE,
     arrival_order |-> None]

\* Vehicle::new; `id` is the entity, player_controlled says whether the
\* entity carries the marker component PlayerControlled
VehicleNew(id, segment, destination, route, aggression, draws) ==
    [id |-> id,
     player_controlled |-> FALSE,
     speed |-> 0,
     segment |-> segment,
     progress |-> 0,
     destination |-> destination,
     route |-> route,
     idm |-> IdmNew(aggression, draws),
     gap |-> GapAcceptanceNew(aggression, draws[5]),
     length |-> DEFAULT_CAR_LENGTH,
     width |-> DEFAULT_CAR_WIDTH]

----------------------------------------------------------------------------
(* occupancy.rs                                                             *)

\* a bucket left in the order of the pushes
InsertOccupant_Unsorted(bucket, occ) == Append(bucket, occ)

\* sort_by on progress: a stable insertion into a bucket sorted ascending
InsertOccupant(bucket, occ) ==
    LET before == SelectSeq(bucket, LAMBDA o : o.progress <= occ.progress)
        after == SelectSeq(bucket, LAMBDA o : o.progress > occ.progress)
    IN  before \o <<occ>> \o after

\* update_occupancy: the index is cleared, every vehicle is pushed into the
\* bucket of its segment, and every bucket is sorted by progress
OccupancyOf(vs) ==
    LET pushed == FoldSeq(LAMBDA acc, v :
                              MapPush(acc, v.segment,
                                      [progress |-> v.progress, vehicle |-> v.id,
                                       speed |-> v.speed, segment |-> v.segment]),
                          EmptyMap, vs)
    IN  [seg \in DOMAIN pushed |-> FoldSeq(InsertOccupant, <<>>, pushed[seg])]

\* f32::MIN
F32_MIN == -2000000000

\* the loop of SegmentOccupancy::find_next; the length of a segment is the
\* distance of its end nodes
RECURSIVE FindNextLoop(_, _, _, _, _, _, _, _, _)
FindNextLoop(road, occ, entity, vehicle, segment, max_iteration, progress, accumulated_distance, first_segment) ==
    LET seg_data == road.segments[segment]
        segment_length == Distance(road.nodes[seg_data.from].position,
                                   road.nodes[seg_data.to].position)
        occupants == IF MapHas(occ, segment) THEN occ[segment] ELSE <<>>
        ahead == SelectSeq(occupants,
                           LAMBDA o : o.progress > progress /\ o.vehicle # entity)
        accumulated ==
            IF first_segment
            THEN accumulated_distance
                     + RDiv((PScale - vehicle.progress) * segment_length, PScale)
            ELSE accumulated_distance + segment_length
        to_node == road.nodes[seg_data.to]
    IN  IF ahead # <<>>
        THEN LET o == ahead[1]
                 distance ==
                     IF first_segment
                     THEN RDiv((o.progress - vehicle.progress) * segment_length,
                               PScale)
                     ELSE accumulated_distance
                              + RDiv(o.progress * segment_length, PScale)
             IN  Some(<<o, distance>>)
        ELSE IF max_iteration - 1 = 0 THEN None
        ELSE IF to_node.outgoing = <<>> THEN None
        ELSE FindNextLoop(road, occ, entity, vehicle, to_node.outgoing[1],
                          max_iteration - 1, F32_MIN, accumulated, FALSE)

\* SegmentOccupancy::find_next
find_next(road, occ, entity, vehicle) ==
    FindNextLoop(road, occ, entity, vehicle, vehicle.segment, 10,
                 vehicle.progress, 0, TRUE)

\* The locals of find_next when the loop is entered: st.hops counts the
\* segments the loop has moved on to, st.returned says that the function has
\* returned st.result.
FindNextEntry(vehicle) ==
    [segment |-> vehicle.segment,
     max_iteration |-> 10,
     progress |-> vehicle.progress,
     accumulated_distance |-> 0,
     first_segment |-> TRUE,
     hops |-> 0,
     returned |-> FALSE,
     result |-> None]

\* a loop body that does not count max_iteration down
FindNextBody_NoCountdown(road, occ, entity, vehicle, st) ==
    LET seg_data == road.segments[st.segment]
        occupants == IF MapHas(occ, st.segment) THEN occ[st.segment] ELSE <<>>
        ahead == SelectSeq(occupants,
                           LAMBDA o : o.progress > st.progress /\ o.vehicle # entity)
        to_node == road.nodes[seg_data.to]
    IN  IF ahead # <<>>
        THEN [st EXCEPT !.returned = TRUE, !.result = Some(<<ahead[1], 0>>)]
        ELSE IF to_node.outgoing = <<>>
        THEN [st EXCEPT !.returned = TRUE]
        ELSE [st EXCEPT !.segment = to_node.outgoing[1],
                        !.progress = F32_MIN,
                        !.first_segment = FALSE,
                        !.hops = @ + 1]

\* one pass through the body of the loop of find_next
FindNextBody(road, occ, entity, vehicle, st) ==
    LET seg_data == road.segments[st.segment]
        segment_length == Distance(road.nodes[seg_data.from].position,
                                   road.nodes[seg_data.to].position)
        occupants == IF MapHas(occ, st.segment) THEN occ[st.segment] ELSE <<>>
        ahead == SelectSeq(occupants,
                           LAMBDA o : o.progress > st.progress /\ o.vehicle # entity)
        accumulated ==
            IF st.first_segment
            THEN st.accumulated_distance
                     + RDiv((PScale - vehicle.progress) * segment_length, PScale)
            ELSE st.accumulated_distance + segment_length
        to_node == road.nodes[seg_data.to]
    IN  IF ahead # <<>>
        THEN LET o == ahead[1]
                 distance ==
                     IF st.first_segment
                     THEN RDiv((o.progress - vehicle.progress) * segment_length,
                               PScale)
                     ELSE st.accumulated_distance
                              + RDiv(o.progress * segment_length, PScale)
             IN  [st EXCEPT !.returned = TRUE, !.result = Some(<<o, distance>>)]
        ELSE IF st.max_iteration - 1 = 0
        THEN [st EXCEPT !.accumulated_distance = accumulated,
                        !.first_segment = FALSE,
                        !.progress = F32_MIN,
                        !.max_iteration = 0,
                        !.returned = TRUE]
        ELSE IF to_node.outgoing = <<>>
        THEN [st EXCEPT !.accumulated_distance = accumulated,
                        !.first_segment = FALSE,
                        !.progress = F32_MIN,
                        !.max_iteration = @ - 1,
                        !.returned = TRUE]
        ELSE [st EXCEPT !.accumulated_distance = accumulated,
                        !.first_segment = FALSE,
                        !.progress = F32_MIN,
                        !.max_iteration = @ - 1,
                        !.segment = to_node.outgoing[1],
                        !.hops = @ + 1]

----------------------------------------------------------------------------
(* idm.rs                                                                   *)

\* (s_star / gap)^2 above RatioCap^2 is clamped away by the lower bound
\* -2 * comfortable_deceleration of the acceleration
RatioCap == 30000

\* Idm::acceleration, in cm/s^2; speeds in cm/s, the gap in cm
acceleration(idm, speed_limit, speed, gap0, delta_speed) ==
    LET desired_speed == lerp(RDiv(speed_limit * 8, 10),
                              RDiv(speed_limit * 12, 10), idm.aggression)
        gap == Max(gap0, 1)
        s_star == idm.min_spacing
                      + RDiv(speed * idm.desired_time_headway, 1000)
                      + RDiv(speed * delta_speed,
                             2 * ISqrt(idm.max_acceleration
                                           * idm.comfortable_deceleration))
        v_ratio == Min(RDiv(speed * 1000, desired_speed), RatioCap)
        v_ratio2 == RDiv(v_ratio * v_ratio, 1000)
        v_ratio4 == RDiv(Min(v_ratio2, RatioCap) * Min(v_ratio2, RatioCap), 1000)
        s_ratio == IF gap >= F32_MAX THEN 0
                   ELSE IF Abs(s_star) \div gap >= RatioCap \div 1000 THEN RatioCap
                   ELSE RDiv(Abs(s_star) * 1000, gap)
        s_ratio2 == RDiv(s_ratio * s_ratio, 1000)
        raw == RDiv(idm.max_acceleration * (1000 - v_ratio4 - s_ratio2), 1000)
    IN  Max(-2 * idm.comfortable_deceleration, Min(raw, idm.max_acceleration))

\* the input of Idm::acceleration
IdmInput(gap, delta_speed) == [gap |-> gap, delta_speed |-> delta_speed]

\* a waiting vehicle with a driver ahead: the nearer of the driver and the
\* stop line
IdmNearer(vehicle, distance_to_end, driver, distance, min_gap) ==
    IdmInput(min_gap,
             IF min_gap = distance THEN vehicle.speed - driver.speed
             ELSE vehicle.speed)

\* found = <<driver, distance>>
IdmBehind(vehicle, distance_to_end, found) ==
    IF IsSome(vehicle.gap.waiting_time)
    THEN IdmNearer(vehicle, distance_to_end, found[1], found[2],
                   Min(found[2], distance_to_end))
    ELSE IdmInput(found[2], vehicle.speed - found[1].speed)

IdmInputsWith(vehicle, distance_to_end, next_driver) ==
    IF IsSome(next_driver)
    THEN IdmBehind(vehicle, distance_to_end, Unwrap(next_driver))
    ELSE IF IsSome(vehicle.gap.waiting_time)
    THEN IdmInput(distance_to_end, vehicle.speed)
    ELSE IdmInput(F32_MAX, 0)

\* the gap and the speed difference that apply_idm hands to
\* Idm::acceleration for one vehicle
IdmInputs(road, occ, vehicle) ==
    IdmInputsWith(vehicle,
                  Max(RDiv((PScale - vehicle.progress)
                               * road.segments[vehicle.segment].length, PScale)
                          - vehicle.length \div 2, 0),
                  find_next(road, occ, vehicle.id, vehicle))

\* the body of the loop of apply_idm: the new speed of one vehicle
IdmSpeed(road, vehicle, in, dt) ==
    Max(vehicle.speed
            + RDiv(acceleration(vehicle.idm,
                                road.segments[vehicle.segment].speed_limit,
                                vehicle.speed, in.gap, in.delta_speed) * dt,
                   1000),
        0)

\* a loop over all vehicles, the player's included
IdmSpeeds_Everyone(road, vs, ins, dt) ==
    [i \in 1..Len(vs) |-> [vs[i] EXCEPT !.speed = IdmSpeed(road, vs[i], ins[i], dt)]]

\* the loop of apply_idm over the vehicles Without<PlayerControlled>
IdmInputsOf(road, occ, vs) == [i \in 1..Len(vs) |-> IdmInputs(road, occ, vs[i])]
IdmSpeeds(road, vs, ins, dt) ==
    [i \in 1..Len(vs) |->
        IF vs[i].player_controlled THEN vs[i]
        ELSE [vs[i] EXCEPT !.speed = IdmSpeed(road, vs[i], ins[i], dt)]]

----------------------------------------------------------------------------
(* gap.rs                                                                   *)

MIN_SAFE_DISTANCE == 300

\* the Roundabout arm of YieldResolver::has_priority: an entry yields to the
\* circle
has_priority_roundabout(my_turn, their_turn) ==
    ~(my_turn = RoundaboutEntry /\ their_turn = RoundaboutCircle)

\* intersection.yield_resolver.has_priority(..)
resolver_has_priority(yield_resolver, my_turn, my_dir, my_arrival, my_wait, their_turn, their_dir, their_arrival, their_wait) ==
    IF yield_resolver = "Roundabout"
    THEN has_priority_roundabout(my_turn, their_turn)
    ELSE has_priority(my_turn, my_dir, my_arrival, my_wait,
                      their_turn, their_dir, their_arrival, their_wait)

\* the position of the first intersection whose incoming list contains the
\* segment, 0 when there is none
FirstIntersectionOf(road, seg) ==
    LET hits == {i \in 1..Len(road.intersections) :
                    SeqContains(road.intersections[i].incoming, seg)}
    IN  IF hits = {} THEN 0 ELSE CHOOSE i \in hits : \A j \in hits : i <= j

\* Phase 1, one vehicle: the arrival order of a vehicle that enters the
\* waiting zone; st holds the vehicles and the arrival counters
AssignArrival(road, st, idx) ==
    LET v == st.vehicles[idx]
        next_segment == RouteGet1(v.route)
        i == FirstIntersectionOf(road, Unwrap(next_segment))
    IN  IF v.progress <= PScale \div 2 THEN st
        ELSE IF IsSome(v.gap.arrival_order) THEN st
        ELSE IF next_segment = None THEN st
        ELSE IF i = 0 THEN st
        ELSE [vehicles |-> [st.vehicles EXCEPT
                               ![idx].gap.arrival_order = Some(st.counter[i])],
              counter |-> [st.counter EXCEPT ![i] = @ + 1]]

\* Phase 2: the snapshot of all vehicles
VehicleInfo(vs) ==
    [i \in 1..Len(vs) |->
        [entity |-> vs[i].id,
         segment |-> vs[i].segment,
         next |-> RouteGet1(vs[i].route),
         progress |-> vs[i].progress,
         speed |-> vs[i].speed,
         length |-> vs[i].length,
         waiting_time |-> UnwrapOr(vs[i].gap.waiting_time, 0),
         arrival_order |-> UnwrapOr(vs[i].gap.arrival_order, U32_MAX)]]

\* the rule of the roundabout applied at every intersection
dominated_EntryOnly(yield_resolver, my_turn, other_turn) ==
    my_turn = RoundaboutEntry /\ other_turn = RoundaboutCircle

\* whether the subject yields to a vehicle that is on a conflicting segment
dominated(yield_resolver, my_turn, other_turn) ==
    IF yield_resolver = "Roundabout"
    THEN my_turn = RoundaboutEntry /\ other_turn = RoundaboutCircle
    ELSE TRUE

\* a loop body without the test of the minimum physical distance
GapStep_NoSafeDistance(road, inter, vehicle, next_segment, acc, other) ==
    LET conflicts == inter.conflicts[next_segment]
        my_turn == road.segments[next_segment].turn_type
        other_turn == road.segments[other.segment].turn_type
        other_next_seg == Unwrap(other.next)
        seg == road.segments[other.segment]
        distance_to_enter ==
            Max(RDiv((PScale - other.progress) * seg.length, PScale)
                    - other.length \div 2, 0)
        time_to_enter == RDiv(distance_to_enter * 1000, Max(other.speed, 10))
    IN  IF acc.broken \/ other.entity = vehicle.id THEN acc
        ELSE IF SeqContains(conflicts, other.segment)
                   /\ dominated(inter.yield_resolver, my_turn, other_turn)
        THEN [gap |-> 0, broken |-> TRUE]
        ELSE IF IsSome(other.next) /\ SeqContains(conflicts, other_next_seg)
        THEN IF resolver_has_priority(
                    inter.yield_resolver,
                    my_turn, inter.entry_directions[next_segment],
                    UnwrapOr(vehicle.gap.arrival_order, U32_MAX),
                    UnwrapOr(vehicle.gap.waiting_time, 0),
                    road.segments[other_next_seg].turn_type,
                    inter.entry_directions[other_next_seg],
                    other.arrival_order, other.waiting_time)
             THEN acc
             ELSE [gap |-> Min(acc.gap, time_to_enter), broken |-> FALSE]
        ELSE acc

\* Phase 3, the body of the loop over the snapshot for one intersection;
\* acc holds actual_gap and whether the loop was left by `break`
GapStep(road, inter, vehicle, next_segment, acc, other) ==
    LET conflicts == inter.conflicts[next_segment]
        my_turn == road.segments[next_segment].turn_type
        other_turn == road.segments[other.segment].turn_type
        other_next_seg == Unwrap(other.next)
        seg == road.segments[other.segment]
        distance_to_enter ==
            Max(RDiv((PScale - other.progress) * seg.length, PScale)
                    - other.length \div 2, 0)
        time_to_enter == RDiv(distance_to_enter * 1000, Max(other.speed, 10))
    IN  IF acc.broken \/ other.entity = vehicle.id THEN acc
        ELSE IF SeqContains(conflicts, other.segment)
                   /\ dominated(inter.yield_resolver, my_turn, other_turn)
        THEN [gap |-> 0, broken |-> TRUE]
        ELSE IF IsSome(other.next) /\ SeqContains(conflicts, other_next_seg)
        THEN IF resolver_has_priority(
                    inter.yield_resolver,
                    my_turn, inter.entry_directions[next_segment],
                    UnwrapOr(vehicle.gap.arrival_order, U32_MAX),
                    UnwrapOr(vehicle.gap.waiting_time, 0),
                    road.segments[other_next_seg].turn_type,
                    inter.entry_directions[other_next_seg],
                    other.arrival_order, other.waiting_time)
             THEN acc
             ELSE IF distance_to_enter < MIN_SAFE_DISTANCE
             THEN [gap |-> 0, broken |-> TRUE]
             ELSE [gap |-> Min(acc.gap, time_to_enter), broken |-> FALSE]
        ELSE acc

\* Phase 3: actual_gap of one vehicle, in ms
ActualGap(road, vehicle, info) ==
    LET next_segment == Unwrap(RouteGet1(vehicle.route))
        perIntersection(gap, inter) ==
            IF SeqContains(inter.incoming, next_segment)
                  /\ MapHas(inter.conflicts, next_segment)
            THEN FoldSeq(LAMBDA acc, other :
                             GapStep(road, inter, vehicle, next_segment, acc, other),
                         [gap |-> gap, broken |-> FALSE], info).gap
            ELSE gap
    IN  FoldSeq(perIntersection, F32_MAX, road.intersections)

\* Phase 3: the decision for one vehicle
GapDecision(road, info, dt, vehicle) ==
    IF vehicle.progress <= PScale \div 2 \/ RouteGet1(vehicle.route) = None
    THEN vehicle
    ELSE IF ActualGap(road, vehicle, info) < vehicle.gap.min_gap
    THEN [vehicle EXCEPT !.gap.waiting_time = Some(UnwrapOr(@, 0) + dt),
                         !.gap.cleared_to_go = FALSE]
    ELSE [vehicle EXCEPT !.gap.cleared_to_go = TRUE]

\* Phase 3, the body of the loop over the snapshot: the two
\* entry_directions.get(..).unwrap() are reached, and one of them finds no
\* entry and panics
GapUnwrapFails(road, inter, vehicle, next_segment, acc, other) ==
    /\ ~acc.broken
    /\ other.entity # vehicle.id
    /\ ~(/\ SeqContains(inter.conflicts[next_segment], other.segment)
         /\ dominated(inter.yield_resolver,
                      road.segments[next_segment].turn_type,
                      road.segments[other.segment].turn_type))
    /\ IsSome(other.next)
    /\ SeqContains(inter.conflicts[next_segment], Unwrap(other.next))
    /\ \/ ~MapHas(inter.entry_directions, next_segment)
       \/ ~MapHas(inter.entry_directions, Unwrap(other.next))

\* Phase 3, the loop over the snapshot for one intersection: whether it
\* panics
GapPanicsAt(road, inter, vehicle, next_segment, info) ==
    FoldSeq(LAMBDA st, other :
                IF st.panicked THEN st
                ELSE IF GapUnwrapFails(road, inter, vehicle, next_segment,
                                       st.acc, other)
                THEN [st EXCEPT !.panicked = TRUE]
                ELSE [st EXCEPT !.acc = GapStep(road, inter, vehicle,
                                                next_segment, st.acc, other)],
            [acc |-> [gap |-> F32_MAX, broken |-> FALSE], panicked |-> FALSE],
            info).panicked

\* Phase 3 for one vehicle: whether its decision panics
GapPanicsFor(road, vehicle, info) ==
    /\ vehicle.progress > PScale \div 2
    /\ IsSome(RouteGet1(vehicle.route))
    /\ \E k \in 1..Len(road.intersections) :
           /\ SeqContains(road.intersections[k].incoming,
                          Unwrap(RouteGet1(vehicle.route)))
           /\ MapHas(road.intersections[k].conflicts,
                     Unwrap(RouteGet1(vehicle.route)))
           /\ GapPanicsAt(road, road.intersections[k], vehicle,
                          Unwrap(RouteGet1(vehicle.route)), info)

\* the vehicles whose decision reaches an unwrap() that finds no entry
GapPanicsOf(road, vs, counter) ==
    LET st == FoldSeq(LAMBDA acc, idx : AssignArrival(road, acc, idx),
                      [vehicles |-> vs, counter |-> counter],
                      [i \in 1..Len(vs) |-> i])
    IN  {i \in 1..Len(vs) :
            GapPanicsFor(road, st.vehicles[i], VehicleInfo(st.vehicles))}

\* a decision that reads the other vehicles as they are now
GapDecideAt_Live(road, info, dt, vs, idx) ==
    [vs EXCEPT ![idx] = GapDecision(road, VehicleInfo(vs), dt, vs[idx])]

\* Phase 3, one pass of the loop: the decision is written to the vehicle,
\* the other vehicles are read from the snapshot
GapDecideAt(road, info, dt, vs, idx) ==
    [vs EXCEPT ![idx] = GapDecision(road, info, dt, vs[idx])]

\* apply_gap_acceptance with the vehicles visited in `order` in Phase 3
GapAcceptanceInOrder(road, vs, counter, dt, order) ==
    LET st == FoldSeq(LAMBDA acc, idx : AssignArrival(road, acc, idx),
                      [vehicles |-> vs, counter |-> counter],
                      [i \in 1..Len(vs) |-> i])
        info == VehicleInfo(st.vehicles)
    IN  [vehicles |-> FoldSeq(LAMBDA acc, idx :
                                  GapDecideAt(road, info, dt, acc, idx),
                              st.vehicles, order),
         counter |-> st.counter]

\* apply_gap_acceptance on the vehicles and the arrival counters
GapAcceptanceOf(road, vs, counter, dt) ==
    LET st == FoldSeq(LAMBDA acc, idx : AssignArrival(road, acc, idx),
                      [vehicles |-> vs, counter |-> counter],
                      [i \in 1..Len(vs) |-> i])
        info == VehicleInfo(st.vehicles)
    IN  [vehicles |-> [i \in 1..Len(vs) |->
                          GapDecision(road, info, dt, st.vehicles[i])],
         counter |-> st.counter]

----------------------------------------------------------------------------
(* vehicle.rs                                                               *)

MAX_VEHICLES == 40

\* the transition that keeps the old route
Transition_KeepRoute(vehicle, progress, segment_length, next, route, next_length) ==
    [vehicle EXCEPT !.segment = next,
                    !.progress = RDiv((progress - PScale) * segment_length,
                                      next_length),
                    !.gap.waiting_time = None]

\* a transition that jumps onto the last segment of the route
Transition_LastOfRoute(vehicle, progress, segment_length, next, route, next_length) ==
    [vehicle EXCEPT !.route = route,
                    !.segment = route[Len(route)],
                    !.progress = RDiv((progress - PScale) * segment_length,
                                      next_length),
                    !.gap.waiting_time = None]

\* the Some((next, route)) arm: the vehicle moves onto its next segment and
\* carries the excess distance over
Transition(vehicle, progress, segment_length, next, route, next_length) ==
    LET excess_distance == (progress - PScale) * segment_length
        new_progress == RDiv(excess_distance, next_length)
    IN  [vehicle EXCEPT !.route = route,
                        !.segment = next,
                        !.progress = new_progress,
                        !.gap.waiting_time = None]

\* the Some arm of the pathfinder's answer, found = <<next, route>>
TransitionTo(rd, vehicle, progress, segment_length, found) ==
    Transition(vehicle, progress, segment_length, found[1], found[2],
               rd.segments[found[1]].length)

\* the outcome of one vehicle: the vehicle after the step, whether it moved
\* onto its next segment, whether it is despawned
MoveOutcome(vehicle, transition, despawn) ==
    [vehicle |-> vehicle, transition |-> transition, despawn |-> despawn]

\* the end of the segment is passed and its end node has outgoing segments
MoveToward(rd, vehicle, progress, segment, next_segment) ==
    IF IsSome(next_segment)
    THEN MoveOutcome(TransitionTo(rd, vehicle, progress, segment.length,
                                  Unwrap(next_segment)),
                     TRUE, FALSE)
    ELSE MoveOutcome([vehicle EXCEPT !.progress = progress], FALSE, TRUE)

MoveTo(rd, vehicle, segment, progress) ==
    IF progress < PScale
    THEN MoveOutcome([vehicle EXCEPT !.progress = progress], FALSE, FALSE)
    ELSE IF rd.nodes[segment.to].outgoing = <<>>
    THEN MoveOutcome([vehicle EXCEPT !.progress = progress], FALSE, TRUE)
    ELSE MoveToward(rd, vehicle, progress, segment,
                    next_segment_toward(rd, segment.to, vehicle.destination))

MoveOn(rd, dt, vehicle, segment) ==
    MoveTo(rd, vehicle, segment,
           vehicle.progress
               + RDiv(vehicle.speed * dt * (PScale \div 1000), segment.length))

\* the body of the loop of move_and_despawn_vehicles
MoveOne(rd, dt, vehicle) == MoveOn(rd, dt, vehicle, rd.segments[vehicle.segment])

\* the loop of move_and_despawn_vehicles and the despawn commands applied
\* after it
MoveAll(rd, dt, vs) == [i \in 1..Len(vs) |-> MoveOne(rd, dt, vs[i])]
Alive(moved) == SelectSeq(moved, LAMBDA m : ~m.despawn)
VehiclesOf(alive) == [i \in 1..Len(alive) |-> alive[i].vehicle]

\* a candidate of spawn_vehicles: the destination, the first segment and
\* the route; found = <<first segment, route>>
Candidate(dest_id, found) ==
    [dest_id |-> dest_id, first_seg |-> found[1], route |-> found[2]]

CandidateToward(dest_id, next_segment) ==
    IF IsSome(next_segment) THEN <<Candidate(dest_id, Unwrap(next_segment))>>
    ELSE <<>>

\* candidates found without looking at the flags or the position of the node
CandidateAt_AnyNode(road, spawn_id, d) ==
    CandidateToward(d, next_segment_toward(road, spawn_id, d))

CandidateAt(road, spawn_id, d) ==
    IF road.nodes[d].is_despawn
          /\ road.nodes[d].position # road.nodes[spawn_id].position
    THEN CandidateToward(d, next_segment_toward(road, spawn_id, d))
    ELSE <<>>

\* the candidates of spawn_vehicles at one spawn node: the despawn nodes at
\* another position that the pathfinder reaches, with the first segment and
\* the route
SpawnCandidates(road, spawn_id) ==
    FoldSeq(LAMBDA acc, d : acc \o CandidateAt(road, spawn_id, d),
            <<>>, Ids(Len(road.nodes)))

----------------------------------------------------------------------------
(* The tick pipeline: spawn_vehicles, update_occupancy,                     *)
(* apply_gap_acceptance, apply_idm, move_and_despawn_vehicles.              *)

MaxSpawned == 2
MaxWaiting == 2000

Scenarios == {"chain", "cross", "roundabout"}
DtSet == {250, 500}
Aggressions == {100, 900}
Draws == {0}

\* the random numbers of one Vehicle::new: the aggression and the draws of
\* the five blends
Profiles == {[aggression |-> a, draws |-> <<d, d, d, d, d>>] :
                a \in Aggressions, d \in Draws}

\* the Road resource of a run: the chain is driven as built, the others
\* are finalized
RoadOf(sc) ==
    CASE sc = "chain" -> RoadChain
      [] sc = "cross" -> RoadCross
      [] sc = "roundabout" -> RoadRoundabout

NoCall == [op |-> "none"]

\* the number of occupants of the index
TotalOccupants(occ) ==
    Cardinality(UNION {{<<seg, i>> : i \in 1..Len(occ[seg])} : seg \in DOMAIN occ})

\* The random numbers of one call of spawn_vehicles: rng.rolls[n] holds the
\* outcomes of `rand::random::<f32>() < 0.1` at node n, rng.profiles the
\* outcomes of the random numbers of Vehicle::new, and rng.max_id is the
\* last vehicle of the run.
AnyRng(rd) ==
    [rolls |-> [n \in 1..Len(rd.nodes) |-> BOOLEAN],
     profiles |-> Profiles,
     max_id |-> MaxSpawned]

\* a loop body that tests the count read from the occupancy index alone
SpawnAt_StaleTotal(total_vehicles, next_id, created, candidates, rolls, rng) ==
    IF total_vehicles >= MAX_VEHICLES
          \/ next_id + Len(created) > rng.max_id
          \/ candidates = <<>>
    THEN {created}
    ELSE (IF FALSE \in rolls THEN {created} ELSE {}) \cup
         (IF TRUE \in rolls
          THEN {Append(created,
                       VehicleNew(next_id + Len(created),
                                  candidates[k].first_seg,
                                  candidates[k].dest_id, candidates[k].route,
                                  p.aggression, p.draws)) :
                   k \in 1..Len(candidates), p \in rng.profiles}
          ELSE {})

\* one spawn node with candidates: nothing is spawned, or one vehicle is,
\* with any candidate and any outcome of the random numbers; total_vehicles
\* of the code is total_vehicles + Len(created) here
SpawnAt(total_vehicles, next_id, created, candidates, rolls, rng) ==
    IF total_vehicles + Len(created) >= MAX_VEHICLES
          \/ next_id + Len(created) > rng.max_id
          \/ candidates = <<>>
    THEN {created}
    ELSE (IF FALSE \in rolls THEN {created} ELSE {}) \cup
         (IF TRUE \in rolls
          THEN {Append(created,
                       VehicleNew(next_id + Len(created),
                                  candidates[k].first_seg,
                                  candidates[k].dest_id, candidates[k].route,
                                  p.aggression, p.draws)) :
                   k \in 1..Len(candidates), p \in rng.profiles}
          ELSE {})

SpawnEach(total_vehicles, next_id, lists, candidates, rolls, rng) ==
    UNION {SpawnAt(total_vehicles, next_id, created, candidates, rolls, rng) :
              created \in lists}

\* the body of the loop of spawn_vehicles for one node
SpawnStep(rd, total_vehicles, next_id, lists, node_id, rng) ==
    IF ~(rd.nodes[node_id].is_spawn /\ rd.nodes[node_id].outgoing # <<>>)
    THEN lists
    ELSE SpawnEach(total_vehicles, next_id, lists,
                   SpawnCandidates(rd, node_id), rng.rolls[node_id], rng)

\* the loop of spawn_vehicles: the lists of vehicles it can create, one for
\* every outcome of the random numbers
SpawnLoop(rd, total_vehicles, next_id, rng) ==
    FoldSeq(LAMBDA lists, node_id :
                SpawnStep(rd, total_vehicles, next_id, lists, node_id, rng),
            {<<>>}, Ids(Len(rd.nodes)))

Init ==
    /\ call = NoCall
    /\ scenario \in Scenarios
    /\ network = RoadOf(scenario)
    /\ delta \in DtSet
    /\ stage = "spawn"
    /\ vehicles = <<>>
    /\ spawned = 0
    /\ arrival_counter = [i \in 1..Len(network.intersections) |-> 0]
    /\ occupancy = EmptyMap
    /\ idm_in = <<>>

\* spawn_vehicles; the spawned entities exist when the stage has run
SpawnVehicles ==
    /\ stage = "spawn"
    /\ \A i \in 1..Len(vehicles) :
           UnwrapOr(vehicles[i].gap.waiting_time, 0) <= MaxWaiting
    /\ \E created \in SpawnLoop(network, TotalOccupants(occupancy), spawned + 1,
                                AnyRng(network)) :
           /\ vehicles' = vehicles \o created
           /\ spawned' = spawned + Len(created)
    /\ stage' = "occupancy"
    /\ UNCHANGED <<call, scenario, network, delta, arrival_counter, occupancy, idm_in>>

\* a stage that passes its turn on and leaves the index as it was
UpdateOccupancy_Skipped ==
    /\ stage = "occupancy"
    /\ stage' = "gap"
    /\ UNCHANGED <<call, scenario, network, delta, vehicles, spawned, arrival_counter, occupancy, idm_in>>

\* update_occupancy
UpdateOccupancy ==
    /\ stage = "occupancy"
    /\ occupancy' = OccupancyOf(vehicles)
    /\ stage' = "gap"
    /\ UNCHANGED <<call, scenario, network, delta, vehicles, spawned, arrival_counter, idm_in>>

\* apply_gap_acceptance
ApplyGapAcceptance ==
    /\ stage = "gap"
    /\ \E r \in {GapAcceptanceOf(network, vehicles, arrival_counter, delta)} :
           /\ vehicles' = r.vehicles
           /\ arrival_counter' = r.counter
    /\ stage' = "idm"
    /\ UNCHANGED <<call, scenario, network, delta, spawned, occupancy, idm_in>>

\* apply_idm
ApplyIdm ==
    /\ stage = "idm"
    /\ idm_in' = IdmInputsOf(network, occupancy, vehicles)
    /\ vehicles' = IdmSpeeds(network, vehicles, idm_in', delta)
    /\ stage' = "move"
    /\ UNCHANGED <<call, scenario, network, delta, spawned, arrival_counter, occupancy>>

\* move_and_despawn_vehicles; the despawn commands are applied after the loop
MoveAndDespawn ==
    /\ stage = "move"
    /\ vehicles' = VehiclesOf(Alive(MoveAll(network, delta, vehicles)))
    /\ stage' = "spawn"
    /\ UNCHANGED <<call, scenario, network, delta, spawned, arrival_counter, occupancy, idm_in>>

Next ==
    \/ SpawnVehicles
    \/ UpdateOccupancy
    \/ ApplyGapAcceptance
    \/ ApplyIdm
    \/ MoveAndDespawn

Spec == Init /\ [][Next]_vars

----------------------------------------------------------------------------
(* The roundabout scenario with two vehicles placed on it: one on an        *)
(* on-ramp, bound for the entry segment into the circle, and one on a       *)
(* circle segment.  The pipeline then runs as in Spec.                      *)

PlacedProgress == {2000, 6000, 9000}
PlacedSpeeds == {0, 400}

SegmentsOfType(rd, turn_type) ==
    {i \in 1..Len(rd.segments) : rd.segments[i].turn_type = turn_type}

\* the on-ramps: the entry segments that are arcs (the entry segments from
\* A to the inner circle are straight)
OnRamps(built) ==
    {e \in SegmentsOfType(built, RoundaboutEntry) :
        built.segments[e].geometry.kind = "Curved"}

\* the entry segment into the circle that the expansion built at the end of
\* an on-ramp
EntryAfter(built, e) ==
    CHOOSE n \in SegmentsOfType(built, RoundaboutEntry) :
        built.segments[n].from = built.segments[e].to

DespawnNodes(rd) == {d \in 1..Len(rd.nodes) : rd.nodes[d].is_despawn}

Placed(id, segment, route, destination, p, progress, speed) ==
    [VehicleNew(id, segment, destination, route, p.aggression, p.draws) EXCEPT !.progress = progress, !.speed = speed]

PlacedVehicles(rd, built) ==
    {<<Placed(1, e, <<e, EntryAfter(built, e)>>, d, p, pe, sp), Placed(2, c, <<c>>, d, p, pc, sp)>> :
        e \in OnRamps(built), c \in SegmentsOfType(rd, RoundaboutCircle),
        d \in DespawnNodes(rd), p \in Profiles,
        pe \in PlacedProgress, pc \in PlacedProgress, sp \in PlacedSpeeds}

\* the roundabout is finalized, the vehicles are placed by the segments that
\* pass 2 built
PlacedOn(rd, built) ==
    /\ network = rd
    /\ vehicles \in PlacedVehicles(rd, built)

InitPlaced ==
    /\ call = NoCall
    /\ scenario = "roundabout"
    /\ PlacedOn(RoadRoundabout, BuiltRoundabout)
    /\ delta \in DtSet
    /\ stage = "spawn"
    /\ spawned = MaxSpawned
    /\ arrival_counter = [i \in 1..Len(network.intersections) |-> 0]
    /\ occupancy = EmptyMap
    /\ idm_in = <<>>

SpecPlaced == InitPlaced /\ [][Next]_vars

----------------------------------------------------------------------------
(* The inputs of the pure-function specification.                          *)

\* arrival orders 0..MaxArrival, and the sentinel
MaxArrival == 2

\* the headings of the unit tests (UP, DOWN, RIGHT, LEFT) and one heading
\* 16 degrees off RIGHT, whose cross product with RIGHT is below 0.3
UP == Vec(0, 1000)
DOWN == Vec(0, -1000)
RIGHT == Vec(1000, 0)
LEFT == Vec(-1000, 0)
SLANT == Vec(960, 280)

PriorityDirs == {UP, DOWN, RIGHT, LEFT, SLANT}
\* the turn types finalize gave to the micro-segments of the two regular
\* intersections
FinalizeTurns ==
    UNION {{RoadCross.segments[s].turn_type :
                s \in SeqToSet(RoadCross.intersections[i].incoming)} :
           i \in 1..Len(RoadCross.intersections)}

\* the turn types of the unit tests, and those of finalize
PriorityTurns ==
    {Straight, Right(-700), Right(700), Left(700), Left(50)} \cup FinalizeTurns
PriorityArrivals == (0..MaxArrival) \cup {U32_MAX}
PriorityWaits == {0, DEADLOCK_THRESHOLD, DEADLOCK_THRESHOLD + 1, 1000}

PriorityArgs ==
    [turn : PriorityTurns, dir : PriorityDirs,
     arrival : PriorityArrivals, wait : PriorityWaits]

HP(a, b) ==
    has_priority(a.turn, a.dir, a.arrival, a.wait,
                 b.turn, b.dir, b.arrival, b.wait)

\* Init of the pure-function specification: a pair of argument tuples
InitPriority ==
    /\ call \in [op : {"has_priority"}, a : PriorityArgs, b : PriorityArgs,
                 done : {FALSE}, ab : {FALSE}, ba : {FALSE}]
    /\ scenario = "none"
    /\ network = EmptyRoad
    /\ delta = 0
    /\ stage = "call"
    /\ vehicles = <<>>
    /\ spawned = 0
    /\ arrival_counter = <<>>
    /\ occupancy = EmptyMap
    /\ idm_in = <<>>

\* has_priority(A, B) and has_priority(B, A) are evaluated
CallHasPriority ==
    /\ call.op = "has_priority"
    /\ ~call.done
    /\ call' = [call EXCEPT !.done = TRUE,
                            !.ab = HP(call.a, call.b),
                            !.ba = HP(call.b, call.a)]
    /\ UNCHANGED simVars

NextPriority == CallHasPriority

SpecPriority == InitPriority /\ [][NextPriority]_vars

----------------------------------------------------------------------------
(* The pathfinder on small road graphs.                                     *)

\* the graphs have MaxPathNodes nodes and up to MaxPathSegments segments
MaxPathNodes == 4
MaxPathSegments == 3

PathNodes == 1..MaxPathNodes

\* the nodes, one metre apart on a line
PathNodesRoad ==
    FoldSeq(LAMBDA road, i : add_node(road, Vec(i * 100, 0)),
            EmptyRoad, Ids(MaxPathNodes))

\* the lists of add_segment calls: any pairs of nodes, in any order, self
\* loops and parallel segments included
PathEdgeLists ==
    UNION {[1..n -> PathNodes \X PathNodes] : n \in 0..MaxPathSegments}

PathRoad(edges) ==
    FoldSeq(LAMBDA road, e : add_segment(road, e[1], e[2], URBAN),
            PathNodesRoad, edges)

\* Init of the pathfinder specification: a road graph and a pair of nodes
InitPath ==
    /\ \E edges \in PathEdgeLists : network = PathRoad(edges)
    /\ call \in [op : {"next_segment_toward"}, current : PathNodes,
                 destination : PathNodes, done : {FALSE}, result : {None}]
    /\ scenario = "none"
    /\ delta = 0
    /\ stage = "call"
    /\ vehicles = <<>>
    /\ spawned = 0
    /\ arrival_counter = <<>>
    /\ occupancy = EmptyMap
    /\ idm_in = <<>>

\* next_segment_toward(&road, current, destination) is evaluated
CallNextSegmentToward ==
    /\ call.op = "next_segment_toward"
    /\ ~call.done
    /\ call' = [call EXCEPT
                    !.done = TRUE,
                    !.result = next_segment_toward(network, call.current,
                                                   call.destination)]
    /\ UNCHANGED simVars

NextPath == CallNextSegmentToward

SpecPath == InitPath /\ [][NextPath]_vars

----------------------------------------------------------------------------
(* The tick pipeline on a road with many spawn nodes.                       *)

\* the number of spawn nodes, and the number of ticks of a run
MaxLanes == 21
MaxTicks == 6

\* one despawn node at the origin (node 1) and MaxLanes spawn nodes, each
\* with a segment of 2 m and more to the despawn node; driven as built
RoadLanes ==
    FoldSeq(LAMBDA road, i :
                add_segment(add_spawn_node(road, Vec(-200 - i, 0)),
                            i + 1, 1, URBAN),
            add_despawn_node(EmptyRoad, Vec(0, 0)), Ids(MaxLanes))

\* in one tick the random number is below 0.1 at no spawn node, at the
\* first two, or at all of them
LanePatterns == {0, 2, MaxLanes}

\* the random numbers of a tick: the first k spawn nodes (nodes 2..k+1)
\* draw below 0.1; every vehicle has aggression 0.5 and no jitter
LaneRng(k) ==
    [rolls |-> [n \in 1..(MaxLanes + 1) |-> {n <= k + 1}],
     profiles |-> {[aggression |-> 500, draws |-> <<0, 0, 0, 0, 0>>]},
     max_id |-> MaxTicks * MaxLanes]

InitLanes ==
    /\ call = [op |-> "lanes", ticks |-> 0]
    /\ scenario = "lanes"
    /\ network = RoadLanes
    /\ delta = 500
    /\ stage = "spawn"
    /\ vehicles = <<>>
    /\ spawned = 0
    /\ arrival_counter = <<>>
    /\ occupancy = EmptyMap
    /\ idm_in = <<>>

\* spawn_vehicles with the random numbers of one of the patterns
SpawnOnLanes ==
    /\ stage = "spawn"
    /\ call.op = "lanes"
    /\ call.ticks < MaxTicks
    /\ \E k \in LanePatterns :
           \E created \in SpawnLoop(network, TotalOccupants(occupancy),
                                    spawned + 1, LaneRng(k)) :
               /\ vehicles' = vehicles \o created
               /\ spawned' = spawned + Len(created)
    /\ call' = [call EXCEPT !.ticks = @ + 1]
    /\ stage' = "occupancy"
    /\ UNCHANGED <<scenario, network, delta, arrival_counter, occupancy, idm_in>>

NextLanes ==
    \/ SpawnOnLanes
    \/ UpdateOccupancy
    \/ ApplyGapAcceptance
    \/ ApplyIdm
    \/ MoveAndDespawn

SpecLanes == InitLanes /\ [][NextLanes]_vars

----------------------------------------------------------------------------
(* spawn_vehicles on small road graphs: four nodes, of which some are       *)
(* spawn nodes, despawn nodes or both, and up to MaxPathSegments segments.  *)

\* the flags of the nodes: node 1 is a spawn node, node 2 a plain node or an
\* edge node, node 3 a plain node or a despawn node, node 4 a despawn node
\* or an edge node
SpawnFlags ==
    {<<"spawn", k2, k3, k4>> :
        k2 \in {"plain", "edge"}, k3 \in {"plain", "despawn"},
        k4 \in {"despawn", "edge"}}

\* the nodes are one metre apart on a line; node 4 lies there too, or at
\* the position of node 1
SpawnPositions ==
    {[i \in PathNodes |-> Vec((IF i = MaxPathNodes /\ same THEN 1 ELSE i) * 100, 0)] :
        same \in BOOLEAN}

AddNodeOf(road, kind, position) ==
    CASE kind = "spawn" -> add_spawn_node(road, position)
      [] kind = "despawn" -> add_despawn_node(road, position)
      [] kind = "edge" -> add_edge_node(road, position)
      [] kind = "plain" -> add_node(road, position)

SpawnRoad(flags, positions, edges) ==
    FoldSeq(LAMBDA road, e : add_segment(road, e[1], e[2], URBAN),
            FoldSeq(LAMBDA road, i : AddNodeOf(road, flags[i], positions[i]),
                    EmptyRoad, Ids(MaxPathNodes)),
            edges)

InitSpawn ==
    /\ call = NoCall
    /\ scenario = "spawn"
    /\ \E flags \in SpawnFlags, positions \in SpawnPositions, edges \in PathEdgeLists :
           network = SpawnRoad(flags, positions, edges)
    /\ delta = 500
    /\ stage = "spawn"
    /\ vehicles = <<>>
    /\ spawned = 0
    /\ arrival_counter = <<>>
    /\ occupancy = EmptyMap
    /\ idm_in = <<>>

NextSpawn == SpawnVehicles

SpecSpawn == InitSpawn /\ [][NextSpawn]_vars

----------------------------------------------------------------------------
(* The tick pipeline on a single straight segment of 10 m with the speed    *)
(* limit 5 m/s, from a spawn node to a despawn node, with ticks of 0.1 s    *)
(* and one vehicle.                                                         *)

\* the tick counter of a run stops counting here
MaxAge == 120

RoadSingle ==
    LET r1 == add_spawn_node(EmptyRoad, Vec(0, 0))
        r2 == add_despawn_node(r1, Vec(1000, 0))
    IN  add_segment(r2, 1, 2, 500)

\* rand::random::<f32>() is in [0, 1), the draw of a blend in [-1, 1)
SingleProfiles ==
    {[aggression |-> a, draws |-> <<d, d, d, d, d>>] :
        a \in {0, 500, 999}, d \in {-1000, 0, 999}}

\* the random number is below 0.1 in the first tick; one vehicle is spawned
\* in a run
SingleRng == [rolls |-> <<{TRUE}, {TRUE}>>, profiles |-> SingleProfiles, max_id |-> 1]

InitSingle ==
    /\ call = [op |-> "single", ticks |-> 0]
    /\ scenario = "single"
    /\ network = RoadSingle
    /\ delta = 100
    /\ stage = "spawn"
    /\ vehicles = <<>>
    /\ spawned = 0
    /\ arrival_counter = <<>>
    /\ occupancy = EmptyMap
    /\ idm_in = <<>>

\* spawn_vehicles; call.ticks is the number of ticks that have run
SpawnSingle ==
    /\ stage = "spawn"
    /\ call.op = "single"
    /\ \E created \in SpawnLoop(network, TotalOccupants(occupancy),
                                spawned + 1, SingleRng) :
           /\ vehicles' = vehicles \o created
           /\ spawned' = spawned + Len(created)
    /\ call' = [call EXCEPT !.ticks = Min(@ + 1, MaxAge)]
    /\ stage' = "occupancy"
    /\ UNCHANGED <<scenario, network, delta, arrival_counter, occupancy, idm_in>>

NextSingle ==
    \/ SpawnSingle
    \/ UpdateOccupancy
    \/ ApplyGapAcceptance
    \/ ApplyIdm
    \/ MoveAndDespawn

\* the system that runs after a system of the chain
StageAfter(st) ==
    CASE st = "spawn" -> "occupancy"
      [] st = "occupancy" -> "gap"
      [] st = "gap" -> "idm"
      [] st = "idm" -> "move"
      [] st = "move" -> "spawn"

\* the schedule runs the next system of the chain: every step of NextSingle
\* is such a step, and one is possible in every state
RunNextSystem == stage' = StageAfter(stage)

\* the app runs the schedule in every frame, so the chain never stops
SpecSingle == InitSingle /\ [][NextSingle]_vars /\ WF_stage(RunNextSystem)

----------------------------------------------------------------------------
(* find_next, one pass of its loop at a time: vehicles are placed on a      *)
(* road, update_occupancy and apply_gap_acceptance run, and apply_idm       *)
(* calls find_next for one of the vehicles.                                 *)

\* the number of segments of the long road: more than find_next looks at
MaxRoadLength == 12

\* MaxRoadLength segments of 5 m in a row, driven as built
RoadLong ==
    FoldSeq(LAMBDA road, i :
                add_segment(add_node(road, Vec(500 * i, 0)), i, i + 1, URBAN),
            add_spawn_node(EmptyRoad, Vec(0, 0)), Ids(MaxRoadLength))

FindScenarios == {"chain", "long", "roundabout"}

RoadFind(sc) ==
    CASE sc = "chain" -> RoadChain
      [] sc = "long" -> RoadLong
      [] sc = "roundabout" -> RoadRoundabout

FindProgress == {0, 3000, 7000}

\* a standing vehicle on a segment, with the segment as its route
FindPlaced(rd, id, segment, progress) ==
    Placed(id, segment, <<segment>>, rd.segments[segment].to,
           [aggression |-> 500, draws |-> <<0, 0, 0, 0, 0>>], progress, 0)

\* two vehicles anywhere on the road, and on a road of straight segments a
\* third one on the segment of the second
FindVehicles(sc, rd) ==
    {<<FindPlaced(rd, 1, s1, p1), FindPlaced(rd, 2, s2, p2)>> :
        s1 \in 1..Len(rd.segments), s2 \in 1..Len(rd.segments),
        p1 \in FindProgress, p2 \in FindProgress}
    \cup
    {<<FindPlaced(rd, 1, s1, p1), FindPlaced(rd, 2, s2, p2),
       FindPlaced(rd, 3, s2, p3)>> :
        s1 \in 1..Len(rd.segments),
        s2 \in (IF sc = "roundabout" THEN {} ELSE 1..Len(rd.segments)),
        p1 \in FindProgress, p2 \in FindProgress, p3 \in FindProgress}

InitFind ==
    /\ call = [op |-> "idle"]
    /\ scenario \in FindScenarios
    /\ network = RoadFind(scenario)
    /\ delta = 500
    /\ stage = "occupancy"
    /\ vehicles \in FindVehicles(scenario, network)
    /\ spawned = Len(vehicles)
    /\ arrival_counter = [i \in 1..Len(network.intersections) |-> 0]
    /\ occupancy = EmptyMap
    /\ idm_in = <<>>

\* apply_idm reaches a vehicle and calls find_next for it
FindNextCall ==
    /\ stage = "idm"
    /\ call.op = "idle"
    /\ \E i \in 1..Len(vehicles) :
           call' = [op |-> "find_next", subject |-> i,
                    st |-> FindNextEntry(vehicles[i])]
    /\ UNCHANGED simVars

\* one pass through the loop of find_next
FindNextIterate ==
    /\ call.op = "find_next"
    /\ ~call.st.returned
    /\ call' = [call EXCEPT !.st = FindNextBody(network, occupancy,
                                              vehicles[call.subject].id,
                                              vehicles[call.subject], @)]
    /\ UNCHANGED simVars

NextFind ==
    \/ UpdateOccupancy
    \/ ApplyGapAcceptance
    \/ FindNextCall
    \/ FindNextIterate

SpecFind == InitFind /\ [][NextFind]_vars

----------------------------------------------------------------------------
(* apply_gap_acceptance on vehicles that approach the three-way             *)
(* intersection of the crossing, visited in any order in Phase 3.           *)

\* an approach: a segment and the micro-segment of an intersection with a
\* conflict list that follows it
ApproachesOf(rd) ==
    {a \in (1..Len(rd.segments)) \X (1..Len(rd.segments)) :
        /\ rd.segments[a[1]].to = rd.segments[a[2]].from
        /\ \E k \in 1..Len(rd.intersections) :
               /\ SeqContains(rd.intersections[k].incoming, a[2])
               /\ MapHas(rd.intersections[k].conflicts, a[2])}

GapWaits == {None, Some(DEADLOCK_THRESHOLD), Some(2 * DEADLOCK_THRESHOLD)}

\* a vehicle on an approach at 4 m/s
Approaching(rd, id, a, progress, waiting_time) ==
    [Placed(id, a[1], <<a[1], a[2]>>, rd.segments[a[2]].to,
            [aggression |-> 500, draws |-> <<0, 0, 0, 0, 0>>], progress, 400)
        EXCEPT !.gap.waiting_time = waiting_time]

\* two vehicles on any approaches, and a third one near the stop line
GapVehicles(rd) ==
    {<<Approaching(rd, 1, a1, p1, w1), Approaching(rd, 2, a2, p2, w2)>> :
        a1 \in ApproachesOf(rd), a2 \in ApproachesOf(rd),
        p1 \in {6000, 9000}, p2 \in {6000, 9000},
        w1 \in GapWaits, w2 \in GapWaits}
    \cup
    {<<Approaching(rd, 1, a1, p1, w1), Approaching(rd, 2, a2, 6000, w2),
       Approaching(rd, 3, a3, 9000, w3)>> :
        a1 \in ApproachesOf(rd), a2 \in ApproachesOf(rd), a3 \in ApproachesOf(rd),
        p1 \in {6000, 9000},
        w1 \in GapWaits, w2 \in GapWaits,
        w3 \in {None, Some(2 * DEADLOCK_THRESHOLD)}}

\* the orders in which a query can visit n vehicles
VisitingOrders(n) ==
    {o \in [1..n -> 1..n] : \A i, j \in 1..n : o[i] = o[j] => i = j}

InitGap ==
    /\ call = [op |-> "idle"]
    /\ scenario = "cross"
    /\ network = RoadCross
    /\ delta = 500
    /\ stage = "gap"
    /\ vehicles \in GapVehicles(network)
    /\ spawned = Len(vehicles)
    /\ arrival_counter = [i \in 1..Len(network.intersections) |-> 0]
    /\ occupancy = OccupancyOf(vehicles)
    /\ idm_in = <<>>

\* apply_gap_acceptance, its query visiting the vehicles in some order in
\* Phase 3
ApplyGapInOrder ==
    /\ stage = "gap"
    /\ \E order \in VisitingOrders(Len(vehicles)) :
           \E r \in {GapAcceptanceInOrder(network, vehicles, arrival_counter,
                                          delta, order)} :
               /\ vehicles' = r.vehicles
               /\ arrival_counter' = r.counter
               /\ call' = [op |-> "apply_gap_acceptance", order |-> order]
    /\ stage' = "idm"
    /\ UNCHANGED <<scenario, network, delta, spawned, occupancy, idm_in>>

NextGap == ApplyGapInOrder

SpecGap == InitGap /\ [][NextGap]_vars

----------------------------------------------------------------------------
(* The tick pipeline on the long road with two vehicles placed on it, some  *)
(* of them marked PlayerControlled by the host.                             *)

\* a vehicle bound for the end of the long road
Driving(rd, id, segment, progress, speed, player) ==
    [Placed(id, segment, <<segment>>, Len(rd.nodes),
            [aggression |-> 500, draws |-> <<0, 0, 0, 0, 0>>], progress, speed)
        EXCEPT !.player_controlled = player]

PlayerVehicles(rd) ==
    {<<Driving(rd, 1, s1, p1, v1, c1), Driving(rd, 2, s2, p2, v2, c2)>> :
        s1 \in {1, 2}, s2 \in {1, 2}, p1 \in {0, 5000}, p2 \in {2000, 7000},
        v1 \in {0, 400}, v2 \in {0, 400}, c1 \in BOOLEAN, c2 \in BOOLEAN}

InitPlayer ==
    /\ call = NoCall
    /\ scenario = "long"
    /\ network = RoadLong
    /\ delta = 500
    /\ stage = "spawn"
    /\ vehicles \in PlayerVehicles(network)
    /\ spawned = MaxSpawned
    /\ arrival_counter = <<>>
    /\ occupancy = EmptyMap
    /\ idm_in = <<>>

SpecPlayer == InitPlayer /\ [][Next]_vars

----------------------------------------------------------------------------
(* The tick pipeline on the crossing with two vehicles placed on            *)
(* approaches of the three-way intersection: the first past the middle of   *)
(* its segment, the second anywhere on its segment and at any speed.        *)

EnterProgress == {2000, 5000, 6000, 9000}
EnterSpeeds == {0, 400, URBAN}
EnterWaits == {None, Some(2 * DEADLOCK_THRESHOLD)}

\* a vehicle on an approach
Entering(rd, id, a, aggression, progress, speed, waiting_time) ==
    [Placed(id, a[1], <<a[1], a[2]>>, rd.segments[a[2]].to,
            [aggression |-> aggression, draws |-> <<0, 0, 0, 0, 0>>],
            progress, speed)
        EXCEPT !.gap.waiting_time = waiting_time]

EnterVehicles(rd) ==
    {<<Entering(rd, 1, a1, g1, 9000, 400, w1),
       Entering(rd, 2, a2, 500, p2, v2, w2)>> :
        a1 \in ApproachesOf(rd), a2 \in ApproachesOf(rd),
        g1 \in {0, 999}, p2 \in EnterProgress, v2 \in EnterSpeeds,
        w1 \in EnterWaits, w2 \in EnterWaits}

InitEnter ==
    /\ call = NoCall
    /\ scenario = "cross"
    /\ network = RoadCross
    /\ delta = 500
    /\ stage = "gap"
    /\ vehicles \in {vs \in EnterVehicles(network) :
                        vs[1].segment # vs[2].segment \/ vs[2].progress < vs[1].progress}
    /\ spawned = MaxSpawned
    /\ arrival_counter = [i \in 1..Len(network.intersections) |-> 0]
    /\ occupancy = OccupancyOf(vehicles)
    /\ idm_in = <<>>

SpecEnter == InitEnter /\ [][Next]_vars

----------------------------------------------------------------------------
(* The tick pipeline on the crossing, with two vehicles on approaches of    *)
(* the three-way intersection and a Road resource whose owner has removed   *)
(* one entry of the intersection's entry_directions.                        *)

\* the road with the entry of segment m removed at intersection k
WithoutEntry(rd, k, m) ==
    [rd EXCEPT !.intersections[k].entry_directions =
                   [s \in (DOMAIN @) \ {m} |-> @[s]]]

\* the crossing as finalize built it, and with one entry removed
DamagedRoads ==
    {RoadCross} \cup
    {WithoutEntry(RoadCross, k, m) :
        k \in {Len(RoadCross.intersections)},
        m \in DOMAIN RoadCross.intersections[Len(RoadCross.intersections)].entry_directions}

\* two vehicles on different approaches
DamagedVehicles(rd) ==
    {<<Approaching(rd, 1, a[1], a[3], None), Approaching(rd, 2, a[2], 9000, None)>> :
        a \in {b \in ApproachesOf(rd) \X ApproachesOf(rd) \X {6000, 9000} :
                  b[1][1] # b[2][1]}}

InitDamaged ==
    /\ call = NoCall
    /\ scenario = "cross"
    /\ network \in DamagedRoads
    /\ delta = 500
    /\ stage = "spawn"
    /\ vehicles \in DamagedVehicles(network)
    /\ spawned = MaxSpawned
    /\ arrival_counter = [i \in 1..Len(network.intersections) |-> 0]
    /\ occupancy = EmptyMap
    /\ idm_in = <<>>

\* apply_gap_acceptance; a panic of an unwrap() ends the run of the app
ApplyGapOrPanic ==
    /\ stage = "gap"
    /\ call.op # "panic"
    /\ IF GapPanicsOf(network, vehicles, arrival_counter) # {}
       THEN /\ call' = [op |-> "panic", system |-> "apply_gap_acceptance"]
            /\ UNCHANGED simVars
       ELSE /\ \E r \in {GapAcceptanceOf(network, vehicles, arrival_counter, delta)} :
                   /\ vehicles' = r.vehicles
                   /\ arrival_counter' = r.counter
            /\ stage' = "idm"
            /\ UNCHANGED <<call, scenario, network, delta, spawned, occupancy, idm_in>>

NextDamaged ==
    \/ SpawnVehicles
    \/ UpdateOccupancy
    \/ ApplyGapOrPanic
    \/ ApplyIdm
    \/ MoveAndDespawn

SpecDamaged == InitDamaged /\ [][NextDamaged]_vars

----------------------------------------------------------------------------
(* The tick pipeline on the crossing, run for ever: the schedule runs in   *)
(* every frame.  gap.waiting_time is an f32 that stops growing when the     *)
(* frame time is below its precision; the model lets it stop at MaxWaiting, *)
(* above DEADLOCK_THRESHOLD, the one value it is compared with.             *)

MaxQueued == 3

\* the random numbers of a run of MaxQueued vehicles in which every
\* `rand::random::<f32>()` of spawn_vehicles is below 0.1: the spawn nodes
\* fill the road in the first frame
WaitingRng(rd) ==
    [rolls |-> [n \in 1..Len(rd.nodes) |-> {TRUE}],
     profiles |-> Profiles,
     max_id |-> MaxQueued]

\* waiting_time + delta_secs, where the sum has stopped growing
SaturateWaiting(vs) ==
    [i \in 1..Len(vs) |->
        [vs[i] EXCEPT !.gap.waiting_time =
            IF IsSome(@) THEN Some(Min(Unwrap(@), MaxWaiting)) ELSE @]]

InitWaiting ==
    /\ call = NoCall
    /\ scenario = "cross"
    /\ network = RoadCross
    /\ delta = 500
    /\ stage = "spawn"
    /\ vehicles = <<>>
    /\ spawned = 0
    /\ arrival_counter = [i \in 1..Len(network.intersections) |-> 0]
    /\ occupancy = EmptyMap
    /\ idm_in = <<>>

\* apply_gap_acceptance
ApplyGapSaturating ==
    /\ stage = "gap"
    /\ \E r \in {GapAcceptanceOf(network, vehicles, arrival_counter, delta)} :
           /\ vehicles' = SaturateWaiting(r.vehicles)
           /\ arrival_counter' = r.counter
    /\ stage' = "idm"
    /\ UNCHANGED <<call, scenario, network, delta, spawned, occupancy, idm_in>>

\* spawn_vehicles with the random numbers of the run
SpawnWaiting ==
    /\ stage = "spawn"
    /\ \E created \in SpawnLoop(network, TotalOccupants(occupancy), spawned + 1,
                                WaitingRng(network)) :
           /\ vehicles' = vehicles \o created
           /\ spawned' = spawned + Len(created)
    /\ stage' = "occupancy"
    /\ UNCHANGED <<call, scenario, network, delta, arrival_counter, occupancy, idm_in>>

NextWaiting ==
    \/ SpawnWaiting
    \/ UpdateOccupancy
    \/ ApplyGapSaturating
    \/ ApplyIdm
    \/ MoveAndDespawn

\* the app runs the schedule in every frame, so the chain never stops
SpecWaiting == InitWaiting /\ [][NextWaiting]_vars /\ WF_stage(RunNextSystem)

----------------------------------------------------------------------------
(* The pathfinder step by step: the first loop, the turns of the while     *)
(* loop and the turns of the backtracking loop, on road graphs of           *)
(* MaxSearchNodes nodes and up to MaxSearchSegments segments.               *)

MaxSearchNodes == 3
MaxSearchSegments == 4

SearchNodes == 1..MaxSearchNodes

\* the lists of add_segment calls: cycles through any node, self loops and
\* parallel segments included
SearchEdgeLists ==
    UNION {[1..n -> SearchNodes \X SearchNodes] : n \in 0..MaxSearchSegments}

\* the nodes, one metre apart on a line
SearchNodesRoad ==
    FoldSeq(LAMBDA road, i : add_node(road, Vec(i * 100, 0)),
            EmptyRoad, Ids(MaxSearchNodes))

SearchRoad(edges) ==
    FoldSeq(LAMBDA road, e : add_segment(road, e[1], e[2], URBAN),
            SearchNodesRoad, edges)

\* the number of times node n is in the list
CountIn(list, n) == Cardinality({i \in 1..Len(list) : list[i] = n})

\* the pushes of one step, added to the count of every node
Enqueue(enqueued, pushed) ==
    [n \in DOMAIN enqueued |-> enqueued[n] + CountIn(pushed, n)]

\* the turns the backtracking loop is followed for
MaxBacktrack == MaxSearchNodes + 2

InitSearch ==
    /\ \E edges \in SearchEdgeLists : network = SearchRoad(edges)
    /\ \E current \in SearchNodes, destination \in SearchNodes :
           call = [op |-> "search", current |-> current,
                   destination |-> destination, phase |-> "start",
                   queue |-> <<>>, came_from |-> EmptyMap, backtrack |-> 0,
                   enqueued |-> [n \in SearchNodes |-> 0], turns |-> 0,
                   steps |-> 0, result |-> None]
    /\ scenario = "none"
    /\ delta = 0
    /\ stage = "call"
    /\ vehicles = <<>>
    /\ spawned = 0
    /\ arrival_counter = <<>>
    /\ occupancy = EmptyMap
    /\ idm_in = <<>>

\* the early return and the first loop
SearchSeed ==
    /\ call.op = "search"
    /\ call.phase = "start"
    /\ IF call.current = call.destination
       THEN call' = [call EXCEPT !.phase = "done"]
       ELSE LET st == BfsStart(network, call.current)
            IN  call' = [call EXCEPT
                             !.phase = "bfs",
                             !.queue = st.queue,
                             !.came_from = st.came_from,
                             !.enqueued = Enqueue(@, st.queue)]
    /\ UNCHANGED simVars

\* one turn of the while loop: pop_front, the test for the destination, the
\* expansion of the node; the return of None when the queue is empty
SearchPop ==
    /\ call.op = "search"
    /\ call.phase = "bfs"
    /\ IF call.queue = <<>>
       THEN call' = [call EXCEPT !.phase = "done"]
       ELSE IF Head(call.queue) = call.destination
       THEN call' = [call EXCEPT !.phase = "backtrack",
                                 !.queue = Tail(@),
                                 !.backtrack = call.destination]
       ELSE LET rest == Tail(call.queue)
                st == BfsExpand(network,
                                [queue |-> rest, came_from |-> call.came_from,
                                 found |-> FALSE],
                                Head(call.queue))
            IN  call' = [call EXCEPT
                             !.queue = st.queue,
                             !.came_from = st.came_from,
                             !.turns = @ + 1,
                             !.enqueued =
                                 Enqueue(@, SubSeq(st.queue, Len(rest) + 1,
                                                   Len(st.queue)))]
    /\ UNCHANGED simVars

\* one turn of the backtracking loop; came_from.get(..).unwrap() panics when
\* the node has no entry
SearchBacktrack ==
    /\ call.op = "search"
    /\ call.phase = "backtrack"
    /\ call.steps < MaxBacktrack
    /\ IF ~MapHas(call.came_from, call.backtrack)
       THEN call' = [call EXCEPT !.phase = "panic"]
       ELSE LET previous_id == call.came_from[call.backtrack]
            IN  IF network.segments[previous_id].from = call.current
                THEN call' = [call EXCEPT !.phase = "done",
                                          !.result = Some(previous_id)]
                ELSE call' = [call EXCEPT
                                  !.backtrack = network.segments[previous_id].from,
                                  !.steps = @ + 1]
    /\ UNCHANGED simVars

NextSearch == SearchSeed \/ SearchPop \/ SearchBacktrack

\* a call that has started runs on: its loops take their turns
SpecSearch == InitSearch /\ [][NextSearch]_vars /\ WF_call(NextSearch)

----------------------------------------------------------------------------
(* The road builder: add_segment and add_bidirectional calls on a road of   *)
(* four nodes, and finalize.                                                *)

\* the number of add_segment / add_bidirectional calls before finalize
MaxCalls == 3

\* node 1 is made by add_node ("None") or by add_intersection_node
BuildKinds == {"None", "RightOfWay", "Roundabout"}

\* node 1 at the origin; edge nodes 10 m east, 30 m north and 30 m west
BuildNodes(kind) ==
    LET r1 == IF kind = "None" THEN add_node(EmptyRoad, Vec(0, 0))
              ELSE add_intersection_node(EmptyRoad, Vec(0, 0), kind)
        r2 == add_edge_node(r1, Vec(1000, 0))
        r3 == add_edge_node(r2, Vec(0, 3000))
    IN  add_edge_node(r3, Vec(-3000, 0))

\* the roads join node 1 and an edge node, in either direction
BuildPairs == {<<1, 2>>, <<2, 1>>, <<1, 3>>, <<3, 1>>, <<1, 4>>, <<4, 1>>}

\* two nodes are joined once: no road lies on top of another
Unjoined(a, b) ==
    \A i \in 1..Len(call.calls) :
        {call.calls[i][2], call.calls[i][3]} # {a, b}

CanBuild ==
    /\ call.op = "build"
    /\ ~call.finalized
    /\ ~call.panicked
    /\ Len(call.calls) < MaxCalls

InitBuild ==
    /\ \E kind \in BuildKinds :
           /\ network = BuildNodes(kind)
           /\ call = [op |-> "build", kind |-> kind, calls |-> <<>>,
                      finalized |-> FALSE, panicked |-> FALSE]
    /\ scenario = "none"
    /\ delta = 0
    /\ stage = "build"
    /\ vehicles = <<>>
    /\ spawned = 0
    /\ arrival_counter = <<>>
    /\ occupancy = EmptyMap
    /\ idm_in = <<>>

\* road.add_segment(from, to, speed::URBAN)
AddSegment ==
    /\ CanBuild
    /\ \E pr \in BuildPairs :
           /\ Unjoined(pr[1], pr[2])
           /\ network' = add_segment(network, pr[1], pr[2], URBAN)
           /\ call' = [call EXCEPT
                           !.calls = Append(@, <<"add_segment", pr[1], pr[2]>>)]
    /\ UNCHANGED <<scenario, delta, stage, vehicles, spawned,
                   arrival_counter, occupancy, idm_in>>

\* road.add_bidirectional(a, b, speed::URBAN)
AddBidirectional ==
    /\ CanBuild
    /\ \E pr \in BuildPairs :
           /\ Unjoined(pr[1], pr[2])
           /\ network' = add_bidirectional(network, pr[1], pr[2], URBAN)
           /\ call' = [call EXCEPT
                           !.calls =
                               Append(@, <<"add_bidirectional", pr[1], pr[2]>>)]
    /\ UNCHANGED <<scenario, delta, stage, vehicles, spawned,
                   arrival_counter, occupancy, idm_in>>

\* road.finalize(), once; a panic ends the program
Finalize ==
    /\ call.op = "build"
    /\ ~call.finalized
    /\ ~call.panicked
    /\ IF finalize_panics(network)
       THEN /\ network' = network
            /\ call' = [call EXCEPT !.panicked = TRUE]
       ELSE /\ network' = finalize(network)
            /\ call' = [call EXCEPT !.finalized = TRUE]
    /\ UNCHANGED <<scenario, delta, stage, vehicles, spawned,
                   arrival_counter, occupancy, idm_in>>

NextBuild == AddSegment \/ AddBidirectional \/ Finalize

SpecBuild == InitBuild /\ [][NextBuild]_vars

----------------------------------------------------------------------------
(* The road builder on a crossing: a centre node and up to MaxArms arms,    *)
(* each joined to the centre by a road towards it, a road away from it or   *)
(* a road in both directions, and finalize.                                 *)

MaxArms == 4

\* the ends of the arms, 30 m from the centre: east, north, west, south,
\* and further ones on the diagonals
ArmPosition(i) ==
    CASE i % 8 = 1 -> Vec(3000, 0)
      [] i % 8 = 2 -> Vec(0, 3000)
      [] i % 8 = 3 -> Vec(-3000, 0)
      [] i % 8 = 4 -> Vec(0, -3000)
      [] i % 8 = 5 -> Vec(2121, 2121)
      [] i % 8 = 6 -> Vec(-2121, 2121)
      [] i % 8 = 7 -> Vec(-2121, -2121)
      [] i % 8 = 0 -> Vec(2121, -2121)

\* node 1 is the centre, node i + 1 the end of arm i
ArmNodes(kind) ==
    FoldSeq(LAMBDA road, i : add_edge_node(road, ArmPosition(i)),
            IF kind = "None" THEN add_node(EmptyRoad, Vec(0, 0))
            ELSE add_intersection_node(EmptyRoad, Vec(0, 0), kind),
            Ids(MaxArms))

ArmWays == {"in", "out", "both"}

\* the road of one arm
AddArm(road, arm, way) ==
    CASE way = "in" -> add_segment(road, arm + 1, 1, URBAN)
      [] way = "out" -> add_segment(road, 1, arm + 1, URBAN)
      [] way = "both" -> add_bidirectional(road, arm + 1, 1, URBAN)

InitArms ==
    /\ \E kind \in {"None", "RightOfWay"} :
           /\ network = ArmNodes(kind)
           /\ call = [op |-> "build", kind |-> kind, calls |-> <<>>,
                      finalized |-> FALSE, panicked |-> FALSE]
    /\ scenario = "arms"
    /\ delta = 0
    /\ stage = "build"
    /\ vehicles = <<>>
    /\ spawned = 0
    /\ arrival_counter = <<>>
    /\ occupancy = EmptyMap
    /\ idm_in = <<>>

\* road.add_segment(..) or road.add_bidirectional(..) for the next arm
AddArmRoad ==
    /\ call.op = "build"
    /\ ~call.finalized
    /\ ~call.panicked
    /\ Len(call.calls) < MaxArms
    /\ \E way \in ArmWays :
           /\ network' = AddArm(network, Len(call.calls) + 1, way)
           /\ call' = [call EXCEPT !.calls = Append(@, way)]
    /\ UNCHANGED <<scenario, delta, stage, vehicles, spawned,
                   arrival_counter, occupancy, idm_in>>

NextArms == AddArmRoad \/ Finalize

SpecArms == InitArms /\ [][NextArms]_vars

----------------------------------------------------------------------------
(* Properties of the tick pipeline.                                         *)

VehicleIdx == 1..Len(vehicles)

\* the vehicle is in the waiting zone of its segment with a next segment:
\* apply_gap_acceptance decides about it
Decided(v) == v.progress > PScale \div 2 /\ IsSome(RouteGet1(v.route))

\* the vehicle approaches intersection k: route[1] is in its incoming list
Approaches(v, k) ==
    /\ IsSome(RouteGet1(v.route))
    /\ SeqContains(network.intersections[k].incoming, Unwrap(RouteGet1(v.route)))

\* C1: at the end of a tick, after move_and_despawn_vehicles, every live
\* vehicle has 0 <= progress <= 1 and speed >= 0.
C1_ProgressAndSpeedInRange ==
    stage = "spawn" =>
        \A i \in VehicleIdx :
            /\ vehicles[i].progress >= 0
            /\ vehicles[i].progress <= PScale
            /\ vehicles[i].speed >= 0

\* C2: when move_and_despawn_vehicles moves a vehicle onto its next segment,
\* gap.waiting_time and gap.arrival_order are both none afterwards.
C2_TransitionClearsGapState ==
    [][\A i \in VehicleIdx : \A j \in 1..Len(vehicles') :
          (/\ stage = "move"
           /\ vehicles'[j].id = vehicles[i].id
           /\ vehicles'[j].segment # vehicles[i].segment)
          => (/\ vehicles'[j].gap.waiting_time = None
              /\ vehicles'[j].gap.arrival_order = None)]_vars

\* C3: no two live vehicles that approach the same intersection hold the
\* same arrival_order.
C3_ArrivalOrderUnique ==
    \A i \in VehicleIdx : \A j \in VehicleIdx :
        \A k \in 1..Len(network.intersections) :
            (/\ i # j
             /\ Approaches(vehicles[i], k)
             /\ Approaches(vehicles[j], k)
             /\ IsSome(vehicles[i].gap.arrival_order))
            => vehicles[i].gap.arrival_order # vehicles[j].gap.arrival_order

\* C4: the route of every live vehicle is non-empty and starts with the
\* segment the vehicle is on, after spawning and after every transition.
C4_RouteStartsAtSegment ==
    \A i \in VehicleIdx :
        /\ vehicles[i].route # <<>>
        /\ vehicles[i].route[1] = vehicles[i].segment

\* a vehicle that has moved from its first segment onto a later one, with
\* the route the pathfinder returned at the end node
C4_AfterTransition ==
    \E i \in VehicleIdx :
        /\ ~network.nodes[network.segments[vehicles[i].segment].from].is_spawn
        /\ Len(vehicles[i].route) >= 2
        /\ vehicles[i].route[1] = vehicles[i].segment

\* C5: in apply_idm a vehicle that gap acceptance has cleared and that has no
\* leader gets an unbounded gap and delta-speed 0, also when it keeps a
\* waiting_time from earlier waiting; a vehicle that is not cleared gets a
\* gap of at most the distance to the end of its segment.
C5_StopLineIffNotCleared ==
    stage = "move" =>
        \A i \in VehicleIdx :
            LET v == vehicles[i]
                distance_to_end ==
                    Max(RDiv((PScale - v.progress) * network.segments[v.segment].length,
                             PScale) - v.length \div 2, 0)
            IN  Decided(v) =>
                    /\ ~v.gap.cleared_to_go => idm_in[i].gap <= distance_to_end
                    /\ (v.gap.cleared_to_go
                            /\ find_next(network, occupancy, v.id, v) = None)
                        => (idm_in[i].gap = F32_MAX /\ idm_in[i].delta_speed = 0)

\* vehicle i is decided and vehicle j is on a segment of the conflict list
\* of the next segment of i, at a RightOfWay intersection
InsideConflict(i, j) ==
    /\ i # j
    /\ Decided(vehicles[i])
    /\ \E k \in 1..Len(network.intersections) :
           LET inter == network.intersections[k]
               next == Unwrap(RouteGet1(vehicles[i].route))
           IN  /\ inter.yield_resolver = "RightOfWay"
               /\ SeqContains(inter.incoming, next)
               /\ MapHas(inter.conflicts, next)
               /\ SeqContains(inter.conflicts[next], vehicles[j].segment)

\* C6: at a RightOfWay intersection a vehicle with progress > 0.5 whose next
\* segment conflicts with a segment another vehicle is on is not
\* cleared_to_go after apply_gap_acceptance.
C6_YieldsToVehicleInside ==
    stage = "idm" =>
        \A i \in VehicleIdx : \A j \in VehicleIdx :
            InsideConflict(i, j) => ~vehicles[i].gap.cleared_to_go

\* gap acceptance has decided about a vehicle whose next segment conflicts
\* with the segment of a vehicle inside the intersection
C6_VehicleInside ==
    /\ stage = "idm"
    /\ \E i \in VehicleIdx : \E j \in VehicleIdx :
           InsideConflict(i, j) /\ ~vehicles[i].gap.cleared_to_go

----------------------------------------------------------------------------
(* Properties of has_priority.                                              *)

Called == call.op = "has_priority" /\ call.done

InQueue(x) == x.arrival # U32_MAX

\* the arguments with the waiting time set to zero
NoWait(x) == [x EXCEPT !.wait = 0]

\* C8: has_priority is antisymmetric: has_priority(A, B) and
\* has_priority(B, A) are never both true.
C8_Antisymmetric == Called => ~(call.ab /\ call.ba)

\* has_priority(A, B) is true and has_priority(B, A) false, decided by the
\* arrival tiebreak between two vehicles on the same heading and turn
C8_DecidedByTiebreak ==
    /\ Called
    /\ call.ab /\ ~call.ba
    /\ InQueue(call.a) /\ InQueue(call.b)
    /\ call.a.wait = 0
    /\ call.a.dir = call.b.dir
    /\ call.a.turn = call.b.turn

\* C9: when both vehicles have an arrival order and both have waited more
\* than 0.5 s, has_priority returns my_arrival < their_arrival whatever the
\* headings and turn types; when one of them has waited 0.5 s or less, the
\* result is the one the other rules give, as if nobody had waited.
C9_DeadlockBreak ==
    Called =>
        /\ (InQueue(call.a) /\ InQueue(call.b)
                /\ call.a.wait > 500 /\ call.b.wait > 500)
            => (call.ab <=> call.a.arrival < call.b.arrival)
        /\ (call.a.wait <= 500 \/ call.b.wait <= 500)
            => (call.ab <=> HP(NoWait(call.a), NoWait(call.b)))

\* both have waited more than 0.5 s, the earlier arrival is on the left of the
\* other (which is on its right) and has priority all the same
C9_FifoOverridesGeometry ==
    /\ Called
    /\ InQueue(call.a) /\ InQueue(call.b)
    /\ call.a.wait > 500 /\ call.b.wait > 500
    /\ call.a.arrival < call.b.arrival
    /\ CrossZ(call.a.dir, call.b.dir) > YIELD_CROSS
    /\ call.ab /\ ~call.ba

\* C10: a vehicle with an arrival order has priority over a vehicle with the
\* sentinel u32::MAX, and the vehicle with the sentinel never has priority
\* over it; the rule overrides the deadlock, yield-to-right and turn rules.
C10_QueuePreemption ==
    Called =>
        ((InQueue(call.a) /\ ~InQueue(call.b)) => (call.ab /\ ~call.ba))

\* the queued vehicle has priority although the other is on its right and
\* turns right
C10_QueueOverridesGeometry ==
    /\ Called
    /\ InQueue(call.a) /\ ~InQueue(call.b)
    /\ CrossZ(call.a.dir, call.b.dir) > YIELD_CROSS
    /\ call.b.turn.kind = "Right"
    /\ call.a.turn.kind = "Left"
    /\ call.ab /\ ~call.ba

\* neither the queue rule nor the deadlock override decides the call
GeometryDecides ==
    /\ InQueue(call.a) <=> InQueue(call.b)
    /\ ~DeadlockRuleApplies(call.a.wait, call.b.wait)

\* the headings finalize computes for the approaches from the north, the
\* east and the south of an intersection at the origin
FromNorth == Normalize(VSub(Vec(0, 0), Vec(0, 1000)))
FromEast == Normalize(VSub(Vec(0, 0), Vec(1000, 0)))
FromSouth == Normalize(VSub(Vec(0, 0), Vec(0, -1000)))

\* C11: when neither the queue rule nor the deadlock override applies and
\* the cross product c of the two headings has |c| > 0.3, has_priority is
\* true for c < -0.3 and false for c > 0.3, whatever the turn types and
\* arrival orders; the north approach has priority over the east approach,
\* and the east approach over the south approach.
C11_YieldToRight ==
    (Called /\ GeometryDecides) =>
        /\ CrossZ(call.a.dir, call.b.dir) < -YIELD_CROSS => call.ab
        /\ CrossZ(call.a.dir, call.b.dir) > YIELD_CROSS => ~call.ab
        /\ (call.a.dir = FromNorth /\ call.b.dir = FromEast)
            => (call.ab /\ ~call.ba)
        /\ (call.a.dir = FromEast /\ call.b.dir = FromSouth)
            => (call.ab /\ ~call.ba)

\* north meets east: north has priority although it turns left, the other
\* turns right and arrived earlier
C11_NorthBeforeEast ==
    /\ Called /\ GeometryDecides
    /\ call.a.dir = FromNorth /\ call.b.dir = FromEast
    /\ call.a.turn = Left(700) /\ call.b.turn = Right(-700)
    /\ InQueue(call.a) /\ call.b.arrival < call.a.arrival
    /\ call.ab /\ ~call.ba

\* the headings are opposed or equal and no earlier rule decides
PathDecides ==
    /\ GeometryDecides
    /\ Abs(CrossZ(call.a.dir, call.b.dir)) <= YIELD_CROSS

\* C12: for opposing or equal headings and no queue or deadlock rule, the
\* smaller turn value has priority when the two differ by more than 0.1;
\* for the turn types finalize assigns, a right turn has priority over
\* going straight and over a left turn, and going straight over a left turn.
C12_ShorterPathWins ==
    (Called /\ PathDecides) =>
        /\ Abs(TurnCross(call.a.turn) - TurnCross(call.b.turn)) > PATH_EPS
            => (call.ab <=> TurnCross(call.a.turn) < TurnCross(call.b.turn))
        /\ (call.a.turn \in FinalizeTurns /\ call.b.turn \in FinalizeTurns)
            => /\ (call.a.turn.kind = "Right"
                       /\ call.b.turn.kind \in {"Straight", "Left"}) => call.ab
               /\ (call.a.turn.kind = "Straight"
                       /\ call.b.turn.kind = "Left") => call.ab

\* C13: when the queue, deadlock, yield-to-right and shorter-path rules do
\* not decide, has_priority is true exactly for the strictly smaller
\* arrival order.
C13_Tiebreak ==
    (Called /\ PathDecides
        /\ Abs(TurnCross(call.a.turn) - TurnCross(call.b.turn)) <= PATH_EPS)
    => (call.ab <=> call.a.arrival < call.b.arrival)

\* two vehicles on the same heading whose turns differ by 0.05: the earlier
\* arrival has priority, the later one has not
C13_EarlierArrivalWins ==
    /\ Called /\ PathDecides
    /\ call.a.dir = call.b.dir
    /\ call.a.turn = Straight /\ call.b.turn = Left(50)
    /\ call.a.arrival = 0 /\ call.b.arrival = 1
    /\ call.ab /\ ~call.ba

----------------------------------------------------------------------------
(* Properties of move_and_despawn_vehicles.                                 *)

\* the progress of a vehicle after `progress += speed * delta / length`
ProgressAfter(v) ==
    v.progress + RDiv(v.speed * delta * (PScale \div 1000),
                      network.segments[v.segment].length)

\* the end node of the vehicle's segment has no outgoing segment, or the
\* pathfinder finds no route from it to the vehicle's destination
EndsWithoutRoute(v) ==
    \/ network.nodes[network.segments[v.segment].to].outgoing = <<>>
    \/ next_segment_toward(network, network.segments[v.segment].to,
                           v.destination) = None

\* a vehicle that the loop finds at progress >= 1 with no way on is gone
\* after the stage
DespawnedAtTheEnd ==
    \A i \in VehicleIdx :
        (ProgressAfter(vehicles[i]) >= PScale /\ EndsWithoutRoute(vehicles[i]))
            => \A j \in 1..Len(vehicles') : vehicles'[j].id # vehicles[i].id

\* every vehicle alive after the stage is as its own step of the loop left
\* it, whatever was despawned
OthersUntouched ==
    \A j \in 1..Len(vehicles') :
        \E i \in VehicleIdx :
            /\ vehicles[i].id = vehicles'[j].id
            /\ vehicles'[j] = MoveOne(network, delta, vehicles[i]).vehicle

\* no vehicle is alive after the stage with progress >= 1 and no way on
NoneLeftAtTheEnd ==
    \A j \in 1..Len(vehicles') :
        ~(vehicles'[j].progress >= PScale /\ EndsWithoutRoute(vehicles'[j]))

\* the two despawn arms of the loop do what C21 says of them
DespawnArms ==
    [][stage = "move" => (DespawnedAtTheEnd /\ OthersUntouched)]_vars

\* C21: a vehicle that reaches progress >= 1 where the end node of its
\* segment has no outgoing segment, or where the pathfinder returns no
\* route, is despawned in that tick: it is never left alive with
\* progress >= 1, and the despawn changes no other vehicle.
C21_DespawnedWithoutRoute ==
    [][stage = "move" =>
          (DespawnedAtTheEnd /\ NoneLeftAtTheEnd /\ OthersUntouched)]_vars

----------------------------------------------------------------------------
(* Properties of the run on the single segment.                             *)

\* the vehicle of the run is on the segment
OnTheSegment == vehicles # <<>>

\* the vehicle that is spawned is despawned later
EventuallyDespawned == OnTheSegment ~> (vehicles = <<>>)

\* the ticks that have run took 5 s and more
FiveSecondsRun == stage = "spawn" /\ call.ticks * delta >= 5000

\* a vehicle of aggression 0.5 is despawned within 5 s, every vehicle
\* within 8 s
DespawnedInTime ==
    /\ (FiveSecondsRun /\ OnTheSegment) => vehicles[1].idm.aggression < 500
    /\ (stage = "spawn" /\ call.ticks * delta >= 8000) => ~OnTheSegment

----------------------------------------------------------------------------
(* Properties of the positions of the vehicles.                             *)

\* two live vehicles at the same place of the same segment
SamePlace(i, j) ==
    /\ i # j
    /\ vehicles[i].segment = vehicles[j].segment
    /\ vehicles[i].progress = vehicles[j].progress

\* C26: in every reachable state no two live vehicles are on the same
\* segment with the same progress, a vehicle just spawned at progress 0
\* behind a vehicle that has not moved included.
C26_NoTwoAtTheSamePlace ==
    \A i, j \in VehicleIdx : ~SamePlace(i, j)

----------------------------------------------------------------------------
(* Properties of the order of the stages.                                   *)

\* what the stage whose turn it is leaves behind, computed from the state
\* its predecessor left
StageRan ==
    CASE stage = "spawn" ->
             /\ Len(vehicles') >= Len(vehicles)
             /\ SubSeq(vehicles', 1, Len(vehicles)) = vehicles
             /\ \A j \in (Len(vehicles) + 1)..Len(vehicles') :
                    vehicles'[j].progress = 0 /\ vehicles'[j].speed = 0
             /\ UNCHANGED <<occupancy, arrival_counter>>
      [] stage = "occupancy" ->
             /\ occupancy' = OccupancyOf(vehicles)
             /\ UNCHANGED <<vehicles, arrival_counter>>
      [] stage = "gap" ->
             /\ vehicles' = GapAcceptanceOf(network, vehicles, arrival_counter, delta).vehicles
             /\ UNCHANGED occupancy
      [] stage = "idm" ->
             /\ vehicles' = IdmSpeeds(network, vehicles,
                                      IdmInputsOf(network, occupancy, vehicles), delta)
             /\ UNCHANGED <<occupancy, arrival_counter>>
      [] stage = "move" ->
             /\ vehicles' = VehiclesOf(Alive(MoveAll(network, delta, vehicles)))
             /\ UNCHANGED <<occupancy, arrival_counter>>

----------------------------------------------------------------------------
(* Properties of the decision phase of apply_gap_acceptance.                *)

\* what the decision phase leaves on the vehicles
Decisions(vs) ==
    [i \in 1..Len(vs) |-> <<vs[i].id, vs[i].gap.cleared_to_go, vs[i].gap.waiting_time>>]

\* C28: the cleared_to_go and the waiting_time that apply_gap_acceptance
\* leaves on the vehicles are the same for every order in which Phase 3
\* visits them: every decision reads the other vehicles from the snapshot
\* taken before the first decision is written.
C28_OrderIndependent ==
    [][stage = "gap" =>
          \A order \in VisitingOrders(Len(vehicles)) :
              Decisions(vehicles')
                  = Decisions(GapAcceptanceInOrder(network, vehicles, arrival_counter,
                                                   delta, order).vehicles)]_vars

\* the vehicle visited first was made to wait beyond the deadlock threshold,
\* and a vehicle visited after it that had waited beyond it was cleared
C28_LaterVisitCleared ==
    /\ call.op = "apply_gap_acceptance"
    /\ Len(vehicles) >= 2
    /\ vehicles[call.order[1]].gap.waiting_time = Some(2 * DEADLOCK_THRESHOLD)
    /\ ~vehicles[call.order[1]].gap.cleared_to_go
    /\ \E k \in 2..Len(vehicles) :
           /\ vehicles[call.order[k]].gap.cleared_to_go
           /\ vehicles[call.order[k]].gap.waiting_time = Some(2 * DEADLOCK_THRESHOLD)
    /\ call.order[1] # 1

----------------------------------------------------------------------------
(* Properties of apply_idm.                                                 *)

\* C29: apply_idm leaves the speed of every PlayerControlled vehicle
\* unchanged, and of every other vehicle it changes the speed alone:
\* segment, progress, route, destination and the gap-acceptance state are
\* as they were, and no vehicle is added or removed.
C29_OnlySpeedOfTheOthers ==
    [][stage = "idm" =>
          /\ Len(vehicles') = Len(vehicles)
          /\ \A i \in VehicleIdx :
                 /\ vehicles[i].player_controlled => vehicles'[i] = vehicles[i]
                 /\ vehicles'[i] = [vehicles[i] EXCEPT !.speed = vehicles'[i].speed]]_vars

\* apply_idm has run: the player's vehicle stands 2.5 m behind a standing
\* vehicle and drives at 4 m/s, another vehicle has been accelerated
C29_PlayerKeepsSpeed ==
    /\ stage = "move"
    /\ Len(vehicles) = 2
    /\ \E i, j \in VehicleIdx :
           /\ vehicles[i].player_controlled
           /\ vehicles[i].speed = 400
           /\ vehicles[i].segment = vehicles[j].segment
           /\ vehicles[i].progress < vehicles[j].progress
           /\ ~vehicles[j].player_controlled
           /\ vehicles[j].speed \notin {0, 400}

----------------------------------------------------------------------------
(* Properties of apply_gap_acceptance on missing data.                      *)

\* every segment of a conflict list of the intersection has an entry
EntriesComplete(inter) ==
    \A s \in DOMAIN inter.conflicts :
        /\ MapHas(inter.entry_directions, s)
        /\ \A i \in 1..Len(inter.conflicts[s]) :
               MapHas(inter.entry_directions, inter.conflicts[s][i])

\* on a road whose entries are complete the stage does not panic
CompleteRoadNeverPanics ==
    (\A k \in 1..Len(network.intersections) :
         EntriesComplete(network.intersections[k]))
        => call.op # "panic"

\* C30: when apply_gap_acceptance finds no entry_directions entry for a
\* segment of a conflict pair, the stage does not abort the tick: it runs
\* to its end, the vehicle that met the missing entry is made to yield (it
\* is not cleared_to_go), and the next stage runs.
C30_MissingEntryYields ==
    [][stage = "gap" =>
          /\ stage' = "idm"
          /\ call'.op # "panic"
          /\ \A i \in GapPanicsOf(network, vehicles, arrival_counter) :
                 ~vehicles'[i].gap.cleared_to_go]_vars

----------------------------------------------------------------------------
(* Properties of find_next.                                                 *)

InFindNext == call.op = "find_next"
Returned == InFindNext /\ call.st.returned
Subject == vehicles[call.subject]

\* the end node of the segment the loop is at has no outgoing segment
AtDeadEnd(st) ==
    network.nodes[network.segments[st.segment].to].outgoing = <<>>

\* the loop runs on: it has moved on by one segment, and room is left
RunsOn(st, next) ==
    /\ ~next.returned
    /\ next.max_iteration = st.max_iteration - 1
    /\ next.max_iteration >= 1
    /\ next.hops = st.hops + 1
    /\ next.hops <= 10

\* the function returns none: ten segments are looked at, or the road ends
ReturnsNone(next) ==
    /\ next.returned
    /\ next.result = None
    /\ next.max_iteration = 0 \/ AtDeadEnd(next)

ReturnsSome(next) == next.returned /\ IsSome(next.result)

\* C23: find_next terminates on every road graph, cyclic ones included:
\* every pass of its loop either returns or counts max_iteration down and
\* moves on by one segment, the loop moves on at most 10 times, and when it
\* stops at the tenth segment or at a node without outgoing segment it
\* returns none; the function and its loop, run pass by pass, agree.
C23_FindNextTerminates ==
    [][(InFindNext /\ ~call.st.returned) =>
          /\ \/ RunsOn(call.st, call'.st)
             \/ ReturnsNone(call'.st)
             \/ ReturnsSome(call'.st)
          /\ call'.st.returned =>
                 call'.st.result = find_next(network, occupancy, Subject.id, Subject)
          /\ call'.st.hops <= 10]_vars

\* the loop went round the circle of the roundabout and gave up
C23_GaveUpOnTheCircle ==
    /\ Returned
    /\ scenario = "roundabout"
    /\ call.st.result = None
    /\ call.st.max_iteration = 0
    /\ ~AtDeadEnd(call.st)
    /\ network.segments[call.st.segment].turn_type = RoundaboutCircle

\* the vehicles other than the subject on a segment
Others(segment) ==
    {j \in VehicleIdx : j # call.subject /\ vehicles[j].segment = segment}

AheadOnOwn ==
    {j \in Others(Subject.segment) : vehicles[j].progress > Subject.progress}

\* the k-th segment after `segment` along the first outgoing segments, 0
\* when the road ends before it
RECURSIVE SegmentAhead(_, _)
SegmentAhead(segment, k) ==
    IF k = 0 THEN segment
    ELSE LET before == SegmentAhead(segment, k - 1)
         IN  IF before = 0 THEN 0
             ELSE IF network.nodes[network.segments[before].to].outgoing = <<>>
             THEN 0
             ELSE network.nodes[network.segments[before].to].outgoing[1]

\* the later segments within the horizon that hold another vehicle
OccupiedAhead ==
    {k \in 1..9 : SegmentAhead(Subject.segment, k) # 0
                     /\ Others(SegmentAhead(Subject.segment, k)) # {}}

LeastOf(ks) == CHOOSE k \in ks : \A l \in ks : k <= l

\* the occupant is the one of the vehicles js with the smallest progress
NearestOf(occupant, js) ==
    /\ \E j \in js : /\ occupant.vehicle = vehicles[j].id
                      /\ occupant.progress = vehicles[j].progress
                      /\ occupant.segment = vehicles[j].segment
                      /\ occupant.speed = vehicles[j].speed
    /\ \A j \in js : occupant.progress <= vehicles[j].progress

\* the leader the search has to return
FoundTheLeader(result) ==
    IF AheadOnOwn # {}
    THEN IsSome(result) /\ NearestOf(Unwrap(result)[1], AheadOnOwn)
    ELSE IF OccupiedAhead # {}
    THEN /\ IsSome(result)
         /\ NearestOf(Unwrap(result)[1],
                      Others(SegmentAhead(Subject.segment, LeastOf(OccupiedAhead))))
    ELSE result = None

\* every bucket of the index is sorted ascending by progress, and the index
\* holds every vehicle once
BucketsSorted ==
    /\ \A seg \in DOMAIN occupancy :
           \A a, b \in 1..Len(occupancy[seg]) :
               a < b => occupancy[seg][a].progress <= occupancy[seg][b].progress
    /\ \A i \in VehicleIdx :
           Cardinality({<<seg, a>> \in UNION {{<<sg, x>> : x \in 1..Len(occupancy[sg])} :
                                                 sg \in DOMAIN occupancy} :
                           occupancy[seg][a].vehicle = vehicles[i].id}) = 1
    /\ TotalOccupants(occupancy) = Len(vehicles)

\* C24: on the subject's segment find_next returns the occupant with the
\* smallest progress strictly greater than the subject's, never the subject;
\* when there is none it returns the occupant with the smallest progress on
\* the first later segment along the first outgoing segments that holds
\* another vehicle within the horizon, and none when there is no such
\* segment.  When find_next runs, every bucket of the index is sorted
\* ascending by progress and the index holds every live vehicle once.
C24_NearestLeader ==
    /\ InFindNext => BucketsSorted
    /\ Returned =>
           /\ FoundTheLeader(call.st.result)
           /\ IsSome(call.st.result) => Unwrap(call.st.result)[1].vehicle # Subject.id

\* two vehicles ahead on the subject's segment, pushed into the bucket in
\* the order far, near: the nearer one is returned
C24_TwoAhead ==
    /\ Returned
    /\ Cardinality(AheadOnOwn) = 2
    /\ \E j, k \in AheadOnOwn :
           j < k /\ vehicles[j].progress > vehicles[k].progress
    /\ IsSome(call.st.result)

\* the stored length of a segment
StoredLength(segment) == network.segments[segment].length

\* the stored lengths of the segments between the subject's and the k-th
\* segment after it
RECURSIVE LengthsBetween(_)
LengthsBetween(k) ==
    IF k <= 1 THEN 0
    ELSE LengthsBetween(k - 1) + StoredLength(SegmentAhead(Subject.segment, k - 1))

\* the distance along the stored lengths to a leader found after `hops`
\* segments
DistanceAlong(leader, hops) ==
    IF hops = 0
    THEN RDiv((leader.progress - Subject.progress) * StoredLength(Subject.segment),
              PScale)
    ELSE RDiv((PScale - Subject.progress) * StoredLength(Subject.segment), PScale)
             + LengthsBetween(hops)
             + RDiv(leader.progress * StoredLength(leader.segment), PScale)

\* C25: the distance find_next returns is measured along the stored lengths
\* of the segments (the arc length of a curved segment): for a leader on the
\* subject's segment (leader.progress - self.progress) * length, for a
\* leader on a later segment the rest of the subject's segment, the lengths
\* of the segments in between and leader.progress * length of the leader's
\* segment.
C25_DistanceAlongLengths ==
    (Returned /\ IsSome(call.st.result)) =>
        Unwrap(call.st.result)[2]
            = DistanceAlong(Unwrap(call.st.result)[1], call.st.hops)

\* on straight segments the distance is the one along the stored lengths
C25_StraightSegments ==
    (Returned /\ IsSome(call.st.result) /\ scenario # "roundabout") =>
        Unwrap(call.st.result)[2]
            = DistanceAlong(Unwrap(call.st.result)[1], call.st.hops)

----------------------------------------------------------------------------
(* Properties of the pathfinder.                                            *)

PathCalled == call.op = "next_segment_toward" /\ call.done

\* the nodes one segment after the nodes of `from`
Successors(road, from) ==
    {road.segments[s].to :
         s \in {t \in 1..Len(road.segments) : road.segments[t].from \in from}}

\* the nodes at the end of the walks of k segments that start at `current`
RECURSIVE WalkEnds(_, _, _)
WalkEnds(road, current, k) ==
    IF k = 0 THEN {current} ELSE Successors(road, WalkEnds(road, current, k - 1))

\* the lengths of the walks from current to destination, one segment at least
HopCounts(road, current, destination) ==
    {k \in 1..Max(Len(road.nodes), 1) : destination \in WalkEnds(road, current, k)}

Reachable(road, current, destination) ==
    HopCounts(road, current, destination) # {}

\* the breadth-first distance: the least number of segments of a walk
HopDistance(road, current, destination) ==
    CHOOSE k \in HopCounts(road, current, destination) :
        \A m \in HopCounts(road, current, destination) : k <= m

\* C14: for a reachable destination other than current, the route that
\* next_segment_toward returns has as many segments as the breadth-first
\* distance from current to destination, and the first segment returned is
\* the first segment of the route.
C14_RouteHasBfsLength ==
    (PathCalled /\ call.destination # call.current
        /\ Reachable(network, call.current, call.destination))
    => /\ IsSome(call.result)
       /\ Len(Unwrap(call.result)[2])
              = HopDistance(network, call.current, call.destination)
       /\ Unwrap(call.result)[1] = Unwrap(call.result)[2][1]

\* the destination is one segment away over one road and two segments away
\* over another: the route is the single segment
C14_ShortcutTaken ==
    /\ PathCalled
    /\ call.destination # call.current
    /\ HopCounts(network, call.current, call.destination) = {1, 2}
    /\ IsSome(call.result)
    /\ Len(Unwrap(call.result)[2]) = 1

\* C15: next_segment_toward returns None exactly when the destination is
\* the current node or cannot be reached from it over outgoing segments.
C15_NoneIffUnreachable ==
    PathCalled =>
        (call.result = None
            <=> (call.destination = call.current
                    \/ ~Reachable(network, call.current, call.destination)))

\* a node that lies on a cycle gets no route to itself
C15_NoRouteToItself ==
    /\ PathCalled
    /\ call.destination = call.current
    /\ Reachable(network, call.current, call.current)
    /\ call.result = None

----------------------------------------------------------------------------
(* Properties of the road builder.                                          *)

Built == call.op = "build"

Finalized == call.op = "build" /\ call.finalized

\* C16: after any sequence of add_segment and add_bidirectional calls, and
\* after finalize, every segment is in the outgoing list of its from node
\* and in the incoming list of its to node.
C16_SegmentsWired ==
    Built =>
        \A s \in 1..Len(network.segments) :
            /\ SeqContains(network.nodes[network.segments[s].from].outgoing, s)
            /\ SeqContains(network.nodes[network.segments[s].to].incoming, s)

\* a finalized road with a roundabout and with straight segments that
\* pass 3 moved onto new nodes
C16_RoundaboutFinalized ==
    /\ Finalized
    /\ call.kind = "Roundabout"
    /\ Len(network.intersections) = 1
    /\ Len(call.calls) = MaxCalls
    /\ \E i \in 1..Len(call.calls) : call.calls[i][1] = "add_segment"

\* segment b is listed under segment a in a conflict table
InConflicts(conflicts, a, b) ==
    MapHas(conflicts, a) /\ SeqContains(conflicts[a], b)

\* C17: after finalize the conflict table of every intersection is
\* symmetric: a is in conflicts[b] if and only if b is in conflicts[a].
C17_ConflictsSymmetric ==
    Finalized =>
        \A i \in 1..Len(network.intersections) :
            \A a \in 1..Len(network.segments) :
                \A b \in 1..Len(network.segments) :
                    InConflicts(network.intersections[i].conflicts, a, b)
                        <=> InConflicts(network.intersections[i].conflicts, b, a)

\* a finalized intersection whose turning micro-segments conflict
C17_ConflictsFound ==
    /\ Finalized
    /\ Len(network.intersections) = 1
    /\ \E a \in 1..Len(network.segments) :
           \E b \in 1..Len(network.segments) :
               /\ a # b
               /\ InConflicts(network.intersections[1].conflicts, a, b)
               /\ network.segments[a].geometry.kind = "Curved"

\* node n was made by add_intersection_node and every call that named it
\* was add_bidirectional
MarkedIntersection(n) ==
    /\ n \in 1..Len(network.nodes)
    /\ network.nodes[n].yield_resolver # "None"
    /\ \A i \in 1..Len(call.calls) :
           n \in {call.calls[i][2], call.calls[i][3]}
               => call.calls[i][1] = "add_bidirectional"

\* C18: after finalize a node that was made by add_intersection_node and
\* wired by add_bidirectional has empty incoming and outgoing lists, and no
\* segment starts or ends at it.
C18_IntersectionNodeCleared ==
    Finalized =>
        \A n \in 1..Len(network.nodes) :
            MarkedIntersection(n) =>
                /\ network.nodes[n].incoming = <<>>
                /\ network.nodes[n].outgoing = <<>>
                /\ \A s \in 1..Len(network.segments) :
                       /\ network.segments[s].from # n
                       /\ network.segments[s].to # n

\* a finalized intersection of three two-way roads
C18_ThreeRoads ==
    /\ Finalized
    /\ MarkedIntersection(1)
    /\ Len(call.calls) = 3
    /\ Len(network.intersections) = 1
    /\ network.intersections[1].incoming # <<>>

\* the point half way along segment s
Midpoint(s) ==
    position_at(network.segments[s].geometry,
                network.nodes[network.segments[s].from].position,
                network.nodes[network.segments[s].to].position,
                PScale \div 2)

\* the road is finalize of add_bidirectional(A = (0,0), B = (10 m, 0))
LaneOffsetScenario ==
    /\ Finalized
    /\ call.calls = << <<"add_bidirectional", 1, 2>> >>

\* C19: for add_bidirectional(A = (0,0), B = (10,0)) and finalize, the two
\* straight segments lie LANE_OFFSET from the line AB on opposite sides,
\* each to the right of its direction of travel: the midpoint of the
\* segment from A to B is at y = -LANE_OFFSET, the midpoint of the segment
\* from B to A at y = +LANE_OFFSET.
C19_LaneOffset ==
    LaneOffsetScenario =>
        /\ Len(network.segments) = 2
        /\ network.segments[1].geometry.kind = "Straight"
        /\ network.segments[2].geometry.kind = "Straight"
        /\ Midpoint(1) = Vec(500, -LANE_OFFSET)
        /\ Midpoint(2) = Vec(500, LANE_OFFSET)

\* the scenario, with its two segments heading east and west
C19_TwoLanes ==
    /\ LaneOffsetScenario
    /\ network.nodes[network.segments[1].to].position.x = 1000
    /\ network.nodes[network.segments[2].to].position.x = 0

\* C20: the number of live vehicles created by spawn_vehicles never
\* exceeds 40, although spawn_vehicles tests the count of the occupancy
\* index of the previous tick and handles several spawn nodes in one tick.
C20_AtMostFortyVehicles == Len(vehicles) <= MAX_VEHICLES

\* forty vehicles are alive after a tick in which every spawn node drew
\* below 0.1, and the index of the tick before held fewer than forty
C20_CapReached ==
    /\ call.op = "lanes"
    /\ stage = "occupancy"
    /\ Len(vehicles) = MAX_VEHICLES
    /\ TotalOccupants(occupancy) < MAX_VEHICLES
    /\ TotalOccupants(occupancy) + MaxLanes > MAX_VEHICLES

----------------------------------------------------------------------------
(* Properties of the roundabout.                                            *)

\* vehicle i is decided and bound for an entry segment of the roundabout,
\* vehicle j is on a circle segment
EntryMeetsCircle(i, j) ==
    /\ i # j
    /\ scenario = "roundabout"
    /\ Decided(vehicles[i])
    /\ network.segments[Unwrap(RouteGet1(vehicles[i].route))].turn_type
           = RoundaboutEntry
    /\ network.segments[vehicles[j].segment].turn_type = RoundaboutCircle

\* the entry segment and the circle segment were built to end at the same
\* circle node K
MergeAtSameNode(i, j) ==
    BuiltRoundabout.segments[Unwrap(RouteGet1(vehicles[i].route))].to
        = BuiltRoundabout.segments[vehicles[j].segment].to

----------------------------------------------------------------------------
(* Properties of spawn_vehicles.                                            *)

\* the vehicles that the stage created
Created == {i \in 1..Len(vehicles') : i > Len(vehicles)}

\* the node at which the vehicle was spawned: the start of its segment
SpawnNodeOf(v) == network.segments[v.segment].from

\* the destinations of a spawn node: the despawn nodes at another position
\* that a walk over outgoing segments reaches
DestinationsOf(road, spawn_id) ==
    {d \in 1..Len(road.nodes) :
        /\ road.nodes[d].is_despawn
        /\ road.nodes[d].position # road.nodes[spawn_id].position
        /\ Reachable(road, spawn_id, d)}

SpawnedWell(v) ==
    /\ v.speed = 0
    /\ v.progress = 0
    /\ network.nodes[SpawnNodeOf(v)].is_spawn
    /\ SeqContains(network.nodes[SpawnNodeOf(v)].outgoing, v.segment)
    /\ v.destination \in DestinationsOf(network, SpawnNodeOf(v))
    /\ v.route # <<>>
    /\ v.route[1] = v.segment
    /\ network.segments[v.route[Len(v.route)]].to = v.destination

\* C31: every vehicle created by spawn_vehicles has speed 0 and progress 0,
\* is on a segment that leaves a spawn node, and is bound for a despawn node
\* at another position than the spawn node's that is reachable from the
\* spawn node, with a route that starts with its segment and ends at the
\* destination; so no vehicle is created at a node without such a
\* destination.
C31_SpawnedAtRestTowardDespawn ==
    [][stage = "spawn" => \A i \in Created : SpawnedWell(vehicles'[i])]_vars

\* two vehicles were created, while a spawn node with outgoing segments has
\* no destination and stays empty
C31_SpawnedWhereReachable ==
    /\ scenario = "spawn"
    /\ stage = "occupancy"
    /\ Len(vehicles) = 2
    /\ \E n \in 1..Len(network.nodes) :
           /\ network.nodes[n].is_spawn
           /\ network.nodes[n].outgoing # <<>>
           /\ DestinationsOf(network, n) = {}
           /\ \A i \in 1..Len(vehicles) : SpawnNodeOf(vehicles[i]) # n

----------------------------------------------------------------------------
(* Properties of pass 3 of finalize.                                        *)

\* the road as the calls built it, before finalize
BuiltRoad ==
    FoldSeq(LAMBDA rd, c :
                IF c[1] = "add_segment" THEN add_segment(rd, c[2], c[3], URBAN)
                ELSE add_bidirectional(rd, c[2], c[3], URBAN),
            BuildNodes(call.kind), call.calls)

\* the segments that add_segment made; they are straight
BuiltSegments == 1..Len(BuiltRoad.segments)

\* the end of the segment is not at an edge node of an intersection
FreeFrom(s) == network.segments[s].from \notin EdgeNodeIds(network)
FreeTo(s) == network.segments[s].to \notin EdgeNodeIds(network)

NoFlags(n) == ~network.nodes[n].is_spawn /\ ~network.nodes[n].is_despawn

\* the source side of segment s after finalize
SourceSplit(s) ==
    LET old == BuiltRoad.segments[s].from
        new == network.segments[s].from
    IN  /\ new > Len(BuiltRoad.nodes)
        /\ network.nodes[new].is_spawn = BuiltRoad.nodes[old].is_spawn
        /\ ~network.nodes[new].is_despawn
        /\ NoFlags(old)

\* the destination side of segment s after finalize
DestinationSplit(s) ==
    LET old == BuiltRoad.segments[s].to
        new == network.segments[s].to
    IN  /\ new > Len(BuiltRoad.nodes)
        /\ network.nodes[new].is_despawn = BuiltRoad.nodes[old].is_despawn
        /\ ~network.nodes[new].is_spawn
        /\ NoFlags(old)

\* C32: after finalize, for every straight segment and each of its ends
\* that is not at an edge node of an intersection: the new source node is a
\* spawn node exactly when the old source node was and is no despawn node,
\* the new destination node is a despawn node exactly when the old
\* destination node was and is no spawn node, and the old end nodes carry
\* neither flag; every spawn node has no incoming segment and every despawn
\* node no outgoing segment.
C32_FlagsSplit ==
    Finalized =>
        /\ \A s \in BuiltSegments :
               /\ FreeFrom(s) => SourceSplit(s)
               /\ FreeTo(s) => DestinationSplit(s)
        /\ \A n \in 1..Len(network.nodes) :
               /\ network.nodes[n].is_spawn => network.nodes[n].incoming = <<>>
               /\ network.nodes[n].is_despawn => network.nodes[n].outgoing = <<>>

\* a road between two edge nodes of the builder through an intersection:
\* the node at its start is split into a spawn node, the node at its end
\* into a despawn node
C32_EdgeNodeSplit ==
    /\ Finalized
    /\ call.kind # "None"
    /\ \E s \in BuiltSegments, t \in BuiltSegments :
           /\ FreeFrom(s) /\ ~FreeTo(s)
           /\ network.nodes[network.segments[s].from].is_spawn
           /\ FreeTo(t) /\ ~FreeFrom(t)
           /\ network.nodes[network.segments[t].to].is_despawn
           /\ BuiltRoad.segments[s].from = BuiltRoad.segments[t].to

----------------------------------------------------------------------------
(* Properties of the gap rule of apply_gap_acceptance.                      *)

\* vehicle i is in the waiting zone of intersection k: past the middle of
\* its segment, its next segment an entry of k with a conflict list
Subjects(k) ==
    {i \in VehicleIdx :
        /\ vehicles[i].progress > PScale \div 2
        /\ IsSome(RouteGet1(vehicles[i].route))
        /\ SeqContains(network.intersections[k].incoming, vehicles[i].route[2])
        /\ MapHas(network.intersections[k].conflicts, vehicles[i].route[2])}

ConflictsOfSubject(k, i) == network.intersections[k].conflicts[vehicles[i].route[2]]

\* vehicle j is on a segment that conflicts with the next segment of i
InsideFor(k, i, j) ==
    /\ j # i
    /\ SeqContains(ConflictsOfSubject(k, i), vehicles[j].segment)
    /\ dominated(network.intersections[k].yield_resolver,
                 network.segments[vehicles[i].route[2]].turn_type,
                 network.segments[vehicles[j].segment].turn_type)

\* vehicle j approaches a segment that conflicts with the next segment of i
ApproachingFor(k, i, j) ==
    /\ j # i
    /\ IsSome(RouteGet1(vehicles[j].route))
    /\ SeqContains(ConflictsOfSubject(k, i), vehicles[j].route[2])

\* the subject i has priority over j; the arrival orders are those that the
\* stage has assigned, the waiting times those of before the stage
PriorityOver(k, i, j) ==
    resolver_has_priority(
        network.intersections[k].yield_resolver,
        network.segments[vehicles[i].route[2]].turn_type,
        network.intersections[k].entry_directions[vehicles[i].route[2]],
        UnwrapOr(vehicles'[i].gap.arrival_order, U32_MAX),
        UnwrapOr(vehicles[i].gap.waiting_time, 0),
        network.segments[vehicles[j].route[2]].turn_type,
        network.intersections[k].entry_directions[vehicles[j].route[2]],
        UnwrapOr(vehicles'[j].gap.arrival_order, U32_MAX),
        UnwrapOr(vehicles[j].gap.waiting_time, 0))

\* max(0, (1 - progress) * segment.length - length / 2), in cm
DistanceToEnter(v) ==
    Max(RDiv((PScale - v.progress) * network.segments[v.segment].length, PScale)
            - v.length \div 2, 0)

\* distance_to_enter / max(speed, 0.1), in ms
TimeToEnter(v) == RDiv(DistanceToEnter(v) * 1000, Max(v.speed, 10))

\* j is too near or too soon for i
TooNear(j) == DistanceToEnter(vehicles[j]) < MIN_SAFE_DISTANCE
TooSoon(i, j) == TimeToEnter(vehicles[j]) < vehicles[i].gap.min_gap

\* C33: for a subject i and another vehicle j that approaches a segment of
\* conflicts[next] and over which i has no priority: i is not cleared_to_go
\* if the distance_to_enter of j is below 3 m; otherwise, j being the only
\* other vehicle and not on a conflicting segment, i is not cleared_to_go
\* exactly when distance_to_enter / max(speed, 0.1) is below the min_gap of
\* i.  When i has priority over j, j being the only other vehicle and not
\* on a conflicting segment, i is cleared_to_go.
C33_GapRule ==
    [][stage = "gap" =>
          \A k \in 1..Len(network.intersections) : \A i \in Subjects(k) :
              \A j \in VehicleIdx :
                  ApproachingFor(k, i, j) =>
                      /\ (~PriorityOver(k, i, j) /\ TooNear(j))
                             => ~vehicles'[i].gap.cleared_to_go
                      /\ (Len(vehicles) = 2 /\ ~InsideFor(k, i, j))
                             => (~vehicles'[i].gap.cleared_to_go
                                    <=> (/\ ~PriorityOver(k, i, j)
                                         /\ TooNear(j) \/ TooSoon(i, j)))]_vars

\* the stage has run on two vehicles: the second one is on its approach,
\* 3.75 m before the intersection and 0.94 s away, the first one has
\* min_gap 1 s and is made to wait
C33_WaitsForTheGap ==
    /\ stage = "idm"
    /\ Len(vehicles) = 2
    /\ ~vehicles[1].gap.cleared_to_go
    /\ vehicles[1].progress > PScale \div 2
    /\ \E k \in 1..Len(network.intersections) :
           /\ 1 \in Subjects(k)
           /\ ApproachingFor(k, 1, 2)
           /\ ~InsideFor(k, 1, 2)
    /\ ~TooNear(2)
    /\ TooSoon(1, 2)
    /\ vehicles[2].speed = 400

----------------------------------------------------------------------------
(* Properties of the expansion of a regular intersection.                   *)

\* the crossing as the calls built it, before finalize
BuiltArms ==
    FoldSeq(LAMBDA rd, arm : AddArm(rd, arm, call.calls[arm]),
            ArmNodes(call.kind), Ids(Len(call.calls)))

\* the centre was expanded: it had more than one road in and more than one
\* road out
Expanded ==
    /\ call.op = "build"
    /\ scenario = "arms"
    /\ call.finalized
    /\ Len(BuiltArms.nodes[1].incoming) > 1
    /\ Len(BuiltArms.nodes[1].outgoing) > 1

EntryRoads == SeqToSet(BuiltArms.nodes[1].incoming)
ExitRoads == SeqToSet(BuiltArms.nodes[1].outgoing)

\* the directions of travel of a road into the centre and out of it
EntryDirection(e) ==
    Normalize(VSub(BuiltArms.nodes[1].position,
                   BuiltArms.nodes[BuiltArms.segments[e].from].position))
ExitDirection(x) ==
    Normalize(VSub(BuiltArms.nodes[BuiltArms.segments[x].to].position,
                   BuiltArms.nodes[1].position))

\* the pair is no U-turn: dot >= -0.9
NoUTurn(e, x) ==
    10 * Dot(EntryDirection(e), ExitDirection(x)) >= -9 * DirScale * DirScale

\* the segments that finalize made
MicroSegments == {m \in 1..Len(network.segments) : m > Len(BuiltArms.segments)}

\* the micro-segments from the edge node of entry e to the edge node of
\* exit x
MicroOf(e, x) ==
    {m \in MicroSegments :
        /\ network.segments[m].from = network.segments[e].to
        /\ network.segments[m].to = network.segments[x].from}

\* C34: finalize makes one micro-segment for every (entry, exit) pair of a
\* regular intersection whose directions are not opposite (dot >= -0.9) and
\* none for a U-turn pair; the micro-segment runs from the edge node of the
\* entry to the edge node of the exit and is in the incoming and in the
\* outgoing list of the intersection; it makes no other segment, and a
\* four-way crossing of two-way roads gets 12 micro-segments.
C34_OneMicroSegmentPerTurn ==
    Expanded =>
        /\ Len(network.intersections) = 1
        /\ \A e \in EntryRoads, x \in ExitRoads :
               /\ Cardinality(MicroOf(e, x)) = IF NoUTurn(e, x) THEN 1 ELSE 0
               /\ \A m \in MicroOf(e, x) :
                      /\ SeqContains(network.intersections[1].incoming, m)
                      /\ SeqContains(network.intersections[1].outgoing, m)
        /\ MicroSegments = UNION {MicroOf(e, x) : e \in EntryRoads, x \in ExitRoads}
        /\ (Len(call.calls) = 4 /\ \A a \in 1..4 : call.calls[a] = "both")
               => Cardinality(MicroSegments) = 12

\* the four-way crossing of two-way roads, finalized, with its 12
\* micro-segments
C34_FourWayCrossing ==
    /\ Expanded
    /\ Len(call.calls) = 4
    /\ \A a \in 1..4 : call.calls[a] = "both"
    /\ Len(network.intersections[1].incoming) = 12
    /\ \E e \in EntryRoads, x \in ExitRoads : ~NoUTurn(e, x)

----------------------------------------------------------------------------
(* Properties of the vehicles inside an intersection.                       *)

\* segments a and b are in each other's conflict list at intersection k
InConflict(k, a, b) ==
    /\ MapHas(network.intersections[k].conflicts, a)
    /\ SeqContains(network.intersections[k].conflicts[a], b)
    /\ MapHas(network.intersections[k].conflicts, b)
    /\ SeqContains(network.intersections[k].conflicts[b], a)

\* two vehicles are on conflicting micro-segments of a RightOfWay
\* intersection
Collision ==
    \E k \in 1..Len(network.intersections) :
        /\ network.intersections[k].yield_resolver = "RightOfWay"
        /\ \E i \in VehicleIdx, j \in VehicleIdx :
               /\ i # j
               /\ InConflict(k, vehicles[i].segment, vehicles[j].segment)

\* C35: in a finalized RightOfWay intersection no two distinct vehicles are
\* at the same time on two micro-segments that are in each other's conflict
\* list.
C35_MutualExclusion == ~Collision

----------------------------------------------------------------------------
(* Properties of the vehicles that wait at an intersection.                 *)

\* vehicle i is on a micro-segment of a RightOfWay intersection
InsideAny(i) ==
    \E k \in 1..Len(network.intersections) :
        /\ network.intersections[k].yield_resolver = "RightOfWay"
        /\ SeqContains(network.intersections[k].incoming, vehicles[i].segment)

\* vehicle i waits at the entry of its next segment: it has been made to
\* wait (waiting_time is Some, the test of apply_idm) and stands still
WaitsAt(i) ==
    /\ vehicles[i].progress > PScale \div 2
    /\ IsSome(RouteGet1(vehicles[i].route))
    /\ IsSome(vehicles[i].gap.waiting_time)
    /\ vehicles[i].speed = 0

\* the vehicles a and b wait on two conflicting approaches of a RightOfWay
\* intersection and no vehicle is inside it
WaitingPair(a, b) ==
    /\ \A i \in VehicleIdx : ~InsideAny(i)
    /\ \E k \in 1..Len(network.intersections) :
           /\ network.intersections[k].yield_resolver = "RightOfWay"
           /\ \E i \in VehicleIdx, j \in VehicleIdx :
                  /\ vehicles[i].id = a
                  /\ vehicles[j].id = b
                  /\ WaitsAt(i)
                  /\ WaitsAt(j)
                  /\ vehicles[i].segment # vehicles[j].segment
                  /\ InConflict(k, vehicles[i].route[2], vehicles[j].route[2])

WaitingAtConflict ==
    \E a \in 1..MaxQueued, b \in 1..MaxQueued : a # b /\ WaitingPair(a, b)

\* the vehicle a has entered: it is on a micro-segment of the intersection
Entered(a) ==
    \E i \in VehicleIdx : vehicles[i].id = a /\ InsideAny(i)

\* C36: when vehicles wait on two or more conflicting approaches of a
\* RightOfWay intersection and no vehicle is inside it, then under continued
\* ticks one of the waiting vehicles eventually reaches progress >= 1 and
\* enters the intersection: no set of vehicles waits for ever.
C36_NoDeadlock ==
    \A a \in 1..MaxQueued, b \in 1..MaxQueued :
        WaitingPair(a, b) ~> (Entered(a) \/ Entered(b))

----------------------------------------------------------------------------
(* Properties of the routes across finalize.                                *)

\* the roads s and t of the builder make a path through a node, and the path
\* does not turn back to where it came from
ThroughPath(s, t) ==
    /\ BuiltRoad.segments[s].to = BuiltRoad.segments[t].from
    /\ BuiltRoad.segments[s].from # BuiltRoad.segments[t].to

\* the nodes from which the segment `seg` can be entered after some walk
ReachesSegment(road, current, seg) ==
    \/ road.segments[seg].from = current
    \/ Reachable(road, current, road.segments[seg].from)

\* the path of s and t is there after finalize: the node made for the end of
\* t is reachable from the node made for the start of s
RouteKept(s, t) ==
    Reachable(network, network.segments[s].from, network.segments[t].to)

\* the segments that finalize made
MadeSegments == (1..Len(network.segments)) \ BuiltSegments

\* the nodes at which a road of the builder now ends at an intersection
EntryEdgeNodes ==
    {network.segments[s].to : s \in {t \in BuiltSegments : ~FreeTo(t)}}

RoundaboutBuilt ==
    \E k \in 1..Len(network.intersections) :
        network.intersections[k].yield_resolver = "Roundabout"

\* in a roundabout every segment that finalize made is reachable from every
\* entry edge node
RoundaboutConnected ==
    RoundaboutBuilt =>
        \A e \in EntryEdgeNodes, m \in MadeSegments :
            ReachesSegment(network, e, m)

\* C37: finalize preserves routes.  If before finalize a path of roads leads
\* from node u to node v without a U-turn, then after finalize the
\* despawn-side node made for v is reachable from the spawn-side node made
\* for u, across intersections and across plain pass-through nodes alike;
\* in a roundabout every micro-segment is reachable from every entry edge
\* node.
C37_FinalizePreservesRoutes ==
    Finalized =>
        /\ \A s \in BuiltSegments, t \in BuiltSegments :
               ThroughPath(s, t) => RouteKept(s, t)
        /\ RoundaboutConnected

\* the paths through a regular intersection are kept
RegularRoutesKept ==
    (Finalized /\ Len(network.intersections) > 0 /\ ~RoundaboutBuilt) =>
        \A s \in BuiltSegments, t \in BuiltSegments :
            ThroughPath(s, t) => RouteKept(s, t)

----------------------------------------------------------------------------
(* Properties of the conflict table and entry_directions.                   *)

\* the segments of the conflict table of the intersection: keys and members
ConflictSegments(inter) ==
    DOMAIN inter.conflicts
        \cup UNION {SeqToSet(inter.conflicts[s]) : s \in DOMAIN inter.conflicts}

\* the segment is in the incoming list and has an entry direction
KnownSegment(inter, s) ==
    /\ SeqContains(inter.incoming, s)
    /\ MapHas(inter.entry_directions, s)

\* C38: after finalize, in every intersection every key and every member of
\* the conflicts table is a segment of the intersection's incoming list and
\* has an entry in entry_directions, so the lookups of apply_gap_acceptance
\* find their entries.
C38_ConflictsHaveEntries ==
    Finalized =>
        \A k \in 1..Len(network.intersections) :
            /\ \A s \in ConflictSegments(network.intersections[k]) :
                   KnownSegment(network.intersections[k], s)
            /\ EntriesComplete(network.intersections[k])

\* a crossing is finalized whose table holds a segment with several
\* conflicts
C38_CrossingWithConflicts ==
    /\ Finalized
    /\ \E k \in 1..Len(network.intersections) :
           \E s \in DOMAIN network.intersections[k].conflicts :
               /\ Len(network.intersections[k].conflicts[s]) >= 2
               /\ KnownSegment(network.intersections[k], s)

----------------------------------------------------------------------------
(* Properties of the pathfinder step by step.                               *)

SearchDone == call.op = "search" /\ call.phase = "done"

\* a node is enqueued once, or once for every segment from the start node
EnqueueBound == Max(1, Len(network.nodes[call.current].outgoing))

EnqueuedBounded ==
    \A n \in SearchNodes : call.enqueued[n] <= EnqueueBound

\* the backtracking loop passes every node once at most
BacktrackBounded == call.steps < Len(network.nodes)

\* the while loop takes a turn for a push
TurnsBounded == call.turns <= Len(network.segments)

\* the steps return what next_segment_toward returns
SearchAgrees ==
    SearchDone =>
        LET found == next_segment_toward(network, call.current, call.destination)
        IN  IF found = None THEN call.result = None
            ELSE call.result = Some(Unwrap(found)[1])

\* C39: next_segment_toward terminates on every finite road graph, graphs
\* with cycles through the start node and parallel segments between two
\* nodes included: every node is enqueued a bounded number of times, and
\* the backtracking loop reaches a segment whose from-node is the start
\* node.
C39_SearchTerminates ==
    /\ [](EnqueuedBounded /\ BacktrackBounded /\ TurnsBounded)
    /\ <>SearchDone

\* a search has ended on a graph with a cycle through the start node and
\* parallel segments from it: a node was enqueued twice and the
\* backtracking loop took a second turn
C39_FoundPastCycle ==
    /\ SearchDone
    /\ IsSome(call.result)
    /\ call.steps >= 1
    /\ \E n \in SearchNodes : call.enqueued[n] >= 2
    /\ Reachable(network, call.current, call.current)

----------------------------------------------------------------------------
(* Properties of the routes of the vehicles.                                *)

\* consecutive segments of the route are connected and the last one ends at
\* the destination
RouteConnected(v) ==
    /\ v.route # <<>>
    /\ \A k \in 1..(Len(v.route) - 1) :
           network.segments[v.route[k]].to = network.segments[v.route[k + 1]].from
    /\ network.segments[v.route[Len(v.route)]].to = v.destination

\* vehicle i passes the end of its segment in this tick and moves on
Transitions(i) == MoveOne(network, delta, vehicles[i]).transition

\* the vehicle `new` is the vehicle `old` after its transition
ContinuesFrom(old, new) ==
    /\ network.segments[new.segment].from = network.segments[old.segment].to
    /\ new.destination = old.destination
    /\ RouteConnected(new)

\* C40: whenever a vehicle transitions, its new segment starts at the node
\* where its old segment ended, its destination is unchanged, and
\* consecutive segments of its route are connected, the last one ending at
\* the destination.
C40_RouteContinuity ==
    [][stage = "move" =>
          \A i \in 1..Len(vehicles) :
              Transitions(i) =>
                  \E j \in 1..Len(vehicles') :
                      /\ vehicles'[j].id = vehicles[i].id
                      /\ ContinuesFrom(vehicles[i], vehicles'[j])]_vars

\* a vehicle has moved from an approach onto a micro-segment of a crossing
\* and has further segments to go
C40_OnTheWay ==
    \E i \in VehicleIdx :
        /\ InsideAny(i)
        /\ Len(vehicles[i].route) >= 3
        /\ vehicles[i].route[1] = vehicles[i].segment
        /\ RouteConnected(vehicles[i])

====
